---------------------------- MODULE Spec2Model ----------------------------
(***************************************************************************)
(* Model of src/transform_images.py: ImageModelTransformer, a recursive    *)
(* rewrite of a JSON document that replaces image strings by image         *)
(* descriptors (with fetched, cached dimensions), remaps category ids      *)
(* through two external lookups (cached) and regroups main-category        *)
(* banners found under a `components` key.                                 *)
(*                                                                         *)
(* Strings are sequences of one-character strings, so that lower(),        *)
(* endswith(), `in`, isdigit(), str() and int() are computed as Python     *)
(* computes them.  A JSON value is a tagged record; a mapping is the       *)
(* sequence of its [k, v] pairs in insertion order (keys are unique).      *)
(* Python's None is the JSON null.                                         *)
(***************************************************************************)
EXTENDS Integers, Sequences, FiniteSets, TLC

VARIABLES fetch_dimensions,     \* self.fetch_dimensions
          cache_dimensions,     \* self.cache_dimensions
          convert_category_ids, \* self.convert_category_ids
          dimension_cache,      \* self.dimension_cache : url -> <<width, height>>
          category_cache,       \* self.category_cache  : source id -> target id
          get_log,              \* every GET issued for an image, in order (urls)
          wp_log,               \* every name-service query, in order (source ids)
          odoo_log,             \* every catalog query, in order ([id, name])
          first_ret,            \* first value returned per (operation, key)
          last,                 \* the last operation: arguments, result, calls
          steps                 \* number of operations performed

vars == <<fetch_dimensions, cache_dimensions, convert_category_ids,
          dimension_cache, category_cache, get_log, wp_log, odoo_log,
          first_ret, last, steps>>

(***************************************************************************)
(* Bounds of the model.                                                    *)
(***************************************************************************)
MaxSteps == 3        \* single lookups per behaviour
MaxRuns == 2         \* transforms of the document per behaviour
MaxItems == 2        \* items per banner component
MaxComponents == 2   \* components per `components` array
MaxRequests == 6     \* answers prepared per service for one run on the heap

(***************************************************************************)
(* Characters and strings.                                                 *)
(***************************************************************************)
UpperChars ==
  <<"A","B","C","D","E","F","G","H","I","J","K","L","M","N","O","P","Q","R","S","T","U","V","W","X","Y","Z">>

LowerChars ==
  <<"a","b","c","d","e","f","g","h","i","j","k","l","m","n","o","p","q","r","s","t","u","v","w","x","y","z">>

DigitChars == <<"0","1","2","3","4","5","6","7","8","9">>

\* the lower-case form of each upper-case letter
LowerTable == [c \in {UpperChars[i] : i \in 1..Len(UpperChars)} |->
                 LowerChars[CHOOSE i \in 1..Len(UpperChars) : UpperChars[i] = c]]

\* str.lower() on one character
LowerChar(c) == IF c \in DOMAIN LowerTable THEN LowerTable[c] ELSE c

\* str.lower()
Lower(s) == IF Len(s) = 0 THEN <<>> ELSE [i \in 1..Len(s) |-> LowerChar(s[i])]

\* str.endswith(suffix)
EndsWith(s, suffix) ==
  /\ Len(s) >= Len(suffix)
  /\ SubSeq(s, Len(s) - Len(suffix) + 1, Len(s)) = suffix

\* `pattern in s` for strings
Contains(s, pattern) ==
  \E i \in 1..(Len(s) - Len(pattern) + 1) :
     SubSeq(s, i, i + Len(pattern) - 1) = pattern

DigitTable == [c \in {DigitChars[i] : i \in 1..Len(DigitChars)} |->
                 (CHOOSE i \in 1..Len(DigitChars) : DigitChars[i] = c) - 1]

IsDigitChar(c) == c \in DOMAIN DigitTable

DigitValue(c) == DigitTable[c]

\* str.isdigit(): non-empty and every character a digit
IsDigit(s) == Len(s) > 0 /\ \A i \in 1..Len(s) : IsDigitChar(s[i])

RECURSIVE NatToStr(_)
\* decimal form of a natural number
NatToStr(n) ==
  IF n < 10 THEN <<DigitChars[n + 1]>>
  ELSE NatToStr(n \div 10) \o <<DigitChars[(n % 10) + 1]>>

\* str(n) for an int
IntToStr(n) == IF n < 0 THEN <<"-">> \o NatToStr(0 - n) ELSE NatToStr(n)

RECURSIVE DigitsToNat(_)
DigitsToNat(s) ==
  IF Len(s) = 0 THEN 0
  ELSE 10 * DigitsToNat(SubSeq(s, 1, Len(s) - 1)) + DigitValue(s[Len(s)])

\* int(s) succeeds: an optional sign followed by decimal digits
IsIntLiteral(s) ==
  \/ IsDigit(s)
  \/ Len(s) > 1 /\ s[1] \in {"-", "+"} /\ IsDigit(Tail(s))

\* int(s) for a string that IsIntLiteral
StrToInt(s) ==
  IF s[1] = "-" THEN 0 - DigitsToNat(Tail(s))
  ELSE IF s[1] = "+" THEN DigitsToNat(Tail(s))
  ELSE DigitsToNat(s)

(***************************************************************************)
(* String literals of the program.                                         *)
(***************************************************************************)
K_layout == <<"l","a","y","o","u","t">>
K_banner == <<"b","a","n","n","e","r">>
K_config == <<"c","o","n","f","i","g">>
K_items == <<"i","t","e","m","s">>
K_isMainCategory == <<"i","s","M","a","i","n","C","a","t","e","g","o","r","y">>
K_category == <<"c","a","t","e","g","o","r","y">>
K_categoryid == <<"c","a","t","e","g","o","r","y","i","d">>
K_components == <<"c","o","m","p","o","n","e","n","t","s">>
K_mainCategoryList == <<"m","a","i","n","C","a","t","e","g","o","r","y","L","i","s","t">>
K_categories == <<"c","a","t","e","g","o","r","i","e","s">>
K_id == <<"i","d">>
K_image == <<"i","m","a","g","e">>
K_imageUrl == <<"i","m","a","g","e","U","r","l">>
K_width == <<"w","i","d","t","h">>
K_height == <<"h","e","i","g","h","t">>
K_name == <<"n","a","m","e">>
K_status == <<"s","t","a","t","u","s">>
K_success == <<"s","u","c","c","e","s","s">>
K_data == <<"d","a","t","a">>
K_mattaId == <<"m","a","t","t","a","I","d">>
S_None == <<"N","o","n","e">>
S_True == <<"T","r","u","e">>
S_False == <<"F","a","l","s","e">>

\* placeholder_id = "1139"
placeholder_id == <<"1","1","3","9">>

\* ImageModelTransformer.IMAGE_FIELDS
IMAGE_FIELDS ==
  { <<"i","m","a","g","e">>,
    <<"s","m","a","l","l","_","i","m","g">>,
    <<"s","l","i","d","e","r","_","i","m","a","g","e","s">>,
    <<"h","o","m","e","T","a","b","B","a","r","B","a","c","k","g","r","o","u","n","d","I","m","a","g","e">>,
    <<"s","e","c","t","i","o","n","T","a","b","B","a","c","k","g","r","o","u","n","d","I","m","a","g","e">>,
    <<"s","e","c","t","i","o","n","B","a","c","k","g","r","o","n","d","I","m","g">>,
    <<"i","n","f","l","u","e","n","c","e","r","_","p","f","p">>,
    <<"b","a","c","k","g","r","o","u","n","d","I","m","a","g","e">>,
    <<"b","a","n","n","e","r","_","i","m","a","g","e">>,
    <<"p","r","o","f","i","l","e","_","i","m","a","g","e">>,
    <<"t","h","u","m","b","n","a","i","l">>,
    <<"c","o","v","e","r","_","i","m","a","g","e">>,
    <<"l","o","g","o">>,
    <<"i","c","o","n">> }

\* image_extensions in is_image_url
image_extensions ==
  { <<".","j","p","g">>, <<".","j","p","e","g">>, <<".","p","n","g">>,
    <<".","g","i","f">>, <<".","b","m","p">>, <<".","w","e","b","p">>,
    <<".","s","v","g">> }

\* image_patterns in is_image_url
image_patterns ==
  { <<"c","d","n",".","d","i","g","i","t","a","l","o","c","e","a","n","s","p","a","c","e","s",".","c","o","m">>,
    <<"a","m","a","z","o","n","a","w","s",".","c","o","m">>,
    <<"c","l","o","u","d","i","n","a","r","y",".","c","o","m">>,
    <<"i","m","g","u","r",".","c","o","m">>,
    <<"u","n","s","p","l","a","s","h",".","c","o","m">>,
    <<"/","i","m","a","g","e","s","/">>,
    <<"/","i","m","g","/">>,
    <<"/","m","e","d","i","a","/">>,
    <<"/","a","s","s","e","t","s","/">> }

(***************************************************************************)
(* JSON values.                                                            *)
(***************************************************************************)
JNull == [t |-> "null"]
JBool(b) == [t |-> "bool", b |-> b]
JInt(n) == [t |-> "int", n |-> n]
JStr(s) == [t |-> "str", s |-> s]
JList(l) == [t |-> "list", l |-> l]
JMap(m) == [t |-> "map", m |-> m]
KV(k, v) == [k |-> k, v |-> v]

\* an exception leaving a function
Raise(exc) == [t |-> "raise", exc |-> exc]

IsStr(v) == v.t = "str"
IsList(v) == v.t = "list"
IsMap(v) == v.t = "map"
IsRaise(v) == v.t = "raise"

\* keys of a mapping, as a set
Keys(d) == {d.m[i].k : i \in 1..Len(d.m)}

\* d[key] for a key the mapping has
Lookup(d, key) == d.m[CHOOSE i \in 1..Len(d.m) : d.m[i].k = key].v

\* dict.get(key, default)
Get(d, key, default) == IF key \in Keys(d) THEN Lookup(d, key) ELSE default

\* truth value of a JSON value in a Python condition
Truthy(v) ==
  CASE v.t = "null" -> FALSE
    [] v.t = "bool" -> v.b
    [] v.t = "int" -> v.n # 0
    [] v.t = "str" -> Len(v.s) > 0
    [] v.t = "list" -> Len(v.l) > 0
    [] v.t = "map" -> Len(v.m) > 0

RECURSIVE Join(_, _)
\* sep.join(parts)
Join(parts, sep) ==
  IF Len(parts) = 0 THEN <<>>
  ELSE IF Len(parts) = 1 THEN parts[1]
  ELSE parts[1] \o sep \o Join(Tail(parts), sep)

RECURSIVE PyRepr(_)
\* repr(v): the form str() gives to the elements of a list or dict
PyRepr(v) ==
  CASE v.t = "null" -> S_None
    [] v.t = "bool" -> IF v.b THEN S_True ELSE S_False
    [] v.t = "int" -> IntToStr(v.n)
    [] v.t = "str" -> <<"'">> \o v.s \o <<"'">>
    [] v.t = "list" ->
         <<"[">> \o Join([i \in 1..Len(v.l) |-> PyRepr(v.l[i])], <<",", " ">>) \o <<"]">>
    [] v.t = "map" ->
         <<"{">> \o Join([i \in 1..Len(v.m) |->
                            PyRepr(JStr(v.m[i].k)) \o <<":", " ">> \o PyRepr(v.m[i].v)],
                         <<",", " ">>) \o <<"}">>

\* str(v)
PyStr(v) == IF v.t = "str" THEN v.s ELSE PyRepr(v)

(***************************************************************************)
(* ImageClassifier.                                                        *)
(***************************************************************************)
\* [field.lower() for field in self.IMAGE_FIELDS]
LowerImageFields == {Lower(field) : field \in IMAGE_FIELDS}

\* key.lower() in [field.lower() for field in self.IMAGE_FIELDS]
IsImageField(key) == Lower(key) \in LowerImageFields

\* is_image_url(value)
is_image_url(value) ==
  IF ~IsStr(value) THEN FALSE
  ELSE \E low \in {Lower(value.s)} :
         IF \E ext \in image_extensions : EndsWith(low, ext) THEN TRUE
         ELSE \E pattern \in image_patterns : Contains(low, pattern)

(***************************************************************************)
(* The external services.  A response is an exception raised by the        *)
(* request (network error, timeout) or an HTTP status with a body.  The    *)
(* k-th request an operation sends to a service is answered by the k-th    *)
(* element of that service's response stream; the streams are chosen       *)
(* freely for every operation.                                             *)
(***************************************************************************)
Exception == [kind |-> "exception"]
Http(status, body) == [kind |-> "http", status |-> status, body |-> body]
Undecodable == [t |-> "undecodable"]
ImageBytes(w, h) == [t |-> "image", w |-> w, h |-> h]

\* the answer to request number n + 1 of an operation
NextResp(stream, n) == IF n + 1 \in DOMAIN stream THEN stream[n + 1] ELSE Exception

NoStreams == [dim |-> <<>>, name |-> <<>>, cat |-> <<>>]

(***************************************************************************)
(* The state an operation works on: the two caches of the instance, the    *)
(* requests the operation has sent so far, the image descriptors it has    *)
(* built, the response streams, and the trace of what it did in order:     *)
(* category cache consulted, name request, catalog request, image GET,     *)
(* regrouping of a components array.                                       *)
(***************************************************************************)
Start(dc, cc, env) ==
  [dc |-> dc, cc |-> cc, gets |-> <<>>, wp |-> <<>>, odoo |-> <<>>,
   made |-> <<>>, env |-> env, trace |-> <<>>]

\* one step of the trace
Event(e, key) == [e |-> e, key |-> key]

\* d[key] = value on a cache
Store(cache, key, value) ==
  [k \in DOMAIN cache \cup {key} |-> IF k = key THEN value ELSE cache[k]]

UnknownSize == <<JNull, JNull>>

\* requests.get + raise_for_status + Image.open(...).size; a failure is UnknownSize
FetchSize(resp) ==
  IF resp.kind = "exception" THEN UnknownSize
  ELSE IF resp.status >= 400 THEN UnknownSize
  ELSE IF resp.body.t # "image" THEN UnknownSize
  ELSE <<JInt(resp.body.w), JInt(resp.body.h)>>

\* a variant that does not record a failed fetch in the cache
get_image_dimensions_NoFailCache(image_url, st) ==
  IF ~fetch_dimensions THEN [ret |-> UnknownSize, st |-> st]
  ELSE IF cache_dimensions /\ image_url \in DOMAIN st.dc
  THEN [ret |-> st.dc[image_url], st |-> st]
  ELSE LET size == FetchSize(NextResp(st.env.dim, Len(st.gets)))
           st1 == [st EXCEPT !.gets = Append(@, image_url),
                              !.trace = Append(@, Event("get", image_url))]
       IN  [ret |-> size,
            st |-> IF cache_dimensions /\ size # UnknownSize
                   THEN [st1 EXCEPT !.dc = Store(@, image_url, size)]
                   ELSE st1]

\* a variant that ignores fetch_dimensions
get_image_dimensions_AlwaysFetch(image_url, st) ==
  IF cache_dimensions /\ image_url \in DOMAIN st.dc
  THEN [ret |-> st.dc[image_url], st |-> st]
  ELSE LET size == FetchSize(NextResp(st.env.dim, Len(st.gets)))
           st1 == [st EXCEPT !.gets = Append(@, image_url),
                              !.trace = Append(@, Event("get", image_url))]
       IN  [ret |-> size,
            st |-> IF cache_dimensions
                   THEN [st1 EXCEPT !.dc = Store(@, image_url, size)]
                   ELSE st1]

\* get_image_dimensions(image_url)
get_image_dimensions(image_url, st) ==
  IF ~fetch_dimensions THEN [ret |-> UnknownSize, st |-> st]
  ELSE IF cache_dimensions /\ image_url \in DOMAIN st.dc
  THEN [ret |-> st.dc[image_url], st |-> st]
  ELSE LET size == FetchSize(NextResp(st.env.dim, Len(st.gets)))
           st1 == [st EXCEPT !.gets = Append(@, image_url),
                              !.trace = Append(@, Event("get", image_url))]
       IN  [ret |-> size,
            st |-> IF cache_dimensions
                   THEN [st1 EXCEPT !.dc = Store(@, image_url, size)]
                   ELSE st1]

\* the element of a one-element set: One({F(x) : x \in {e}}) is F(e) with e
\* computed once
One(S) == CHOOSE x \in S : TRUE

\* `a or b`
PyOr(a, b) == IF Truthy(a) THEN a ELSE b

\* a variant that leaves the string in place when no dimension is known
create_image_model_RawWhenUnknown(image_url, width, height, st) ==
  LET fetch == width = JNull \/ height = JNull IN
  One({LET
      w == IF fetch THEN PyOr(width, dims.ret[1]) ELSE width
      h == IF fetch THEN PyOr(height, dims.ret[2]) ELSE height
      image_model ==
        JMap(<<KV(K_imageUrl, JStr(image_url))>>
             \o (IF w # JNull THEN <<KV(K_width, JStr(PyStr(w)))>> ELSE <<>>)
             \o (IF h # JNull THEN <<KV(K_height, JStr(PyStr(h)))>> ELSE <<>>))
      out == IF w = JNull /\ h = JNull THEN JStr(image_url) ELSE image_model
  IN  [out |-> out, st |-> [dims.st EXCEPT !.made = Append(@, out)]]
  : dims \in {IF fetch THEN get_image_dimensions(image_url, st)
              ELSE [ret |-> UnknownSize, st |-> st]}})

\* create_image_model(image_url, width, height)
create_image_model(image_url, width, height, st) ==
  LET fetch == width = JNull \/ height = JNull IN
  One({LET
      w == IF fetch THEN PyOr(width, dims.ret[1]) ELSE width
      h == IF fetch THEN PyOr(height, dims.ret[2]) ELSE height
      image_model ==
        JMap(<<KV(K_imageUrl, JStr(image_url))>>
             \o (IF w # JNull THEN <<KV(K_width, JStr(PyStr(w)))>> ELSE <<>>)
             \o (IF h # JNull THEN <<KV(K_height, JStr(PyStr(h)))>> ELSE <<>>))
  IN  [out |-> image_model, st |-> [dims.st EXCEPT !.made = Append(@, image_model)]]
  : dims \in {IF fetch THEN get_image_dimensions(image_url, st)
              ELSE [ret |-> UnknownSize, st |-> st]}})

\* a variant that reports the default name "" when the request fails
get_wordpress_category_name_EmptyOnError(resp) ==
  IF resp.kind = "exception" THEN JStr(<<>>)
  ELSE IF resp.status # 200 THEN JStr(<<>>)
  ELSE LET data == resp.body IN
       IF data.t \in {"undecodable", "image"} THEN JStr(<<>>)
       ELSE IF ~Truthy(data) THEN JNull
       ELSE IF data.t \in {"int", "bool"} THEN JNull
       ELSE IF data.t # "list" THEN JNull
       ELSE IF ~IsMap(data.l[1]) THEN JNull
       ELSE Get(data.l[1], K_name, JStr(<<>>))

\* get_wordpress_category_name: the name in the response, None (null) when
\* there is none or anything raised
get_wordpress_category_name(resp) ==
  IF resp.kind = "exception" THEN JNull
  ELSE IF resp.status # 200 THEN JNull
  ELSE LET data == resp.body IN
       IF data.t \in {"undecodable", "image"} THEN JNull      \* response.json() raises
       ELSE IF ~Truthy(data) THEN JNull                       \* `if data`
       ELSE IF data.t \in {"int", "bool"} THEN JNull          \* len(data) raises
       ELSE IF data.t # "list" THEN JNull                     \* data[0] raises, or is a character
       ELSE IF ~IsMap(data.l[1]) THEN JNull                   \* data[0].get raises
       ELSE Get(data.l[1], K_name, JStr(<<>>))

\* get_odoo_category_id after the request: the id in the response as a
\* string, None (null) when there is none or anything raised
get_odoo_category_id(resp) ==
  IF resp.kind = "exception" THEN JNull
  ELSE IF resp.status # 200 THEN JNull
  ELSE LET data == resp.body IN
       IF ~IsMap(data) THEN JNull                             \* json() or data.get raises
       ELSE IF Get(data, K_status, JNull) # JStr(K_success) THEN JNull
       ELSE LET d == Get(data, K_data, JNull) IN
            IF ~Truthy(d) THEN JNull
            ELSE IF ~IsList(d) THEN JNull                     \* len(d) or d[0] raises
            ELSE IF ~IsMap(d.l[1]) THEN JNull                 \* d[0].get raises
            ELSE LET matta_id == Get(d.l[1], K_mattaId, JNull) IN
                 IF Truthy(matta_id) THEN JStr(PyStr(matta_id)) ELSE JNull

\* what a lookup reports when it was not made in a call
NotCalled == [t |-> "skipped"]
FromCache == [t |-> "cached"]

\* urllib.parse.quote(category_name) raises unless the name is a string, and
\* then no request is sent
CatalogRequestSent(category_name) == IsStr(category_name)

\* a variant that looks the id up again and stores the new result even when
\* the id is cached
convert_category_id_Refreshes(category_id, st) ==
  IF ~convert_category_ids
  THEN [ret |-> category_id, st |-> st, name |-> NotCalled, odoo |-> NotCalled]
  ELSE
    LET category_name == get_wordpress_category_name(NextResp(st.env.name, Len(st.wp)))
        st1 == [st EXCEPT !.wp = Append(@, category_id),
                          !.trace = @ \o <<Event("cache", category_id),
                                           Event("name", category_id)>>]
    IN
    IF category_name = JNull
    THEN [ret |-> category_id,
          st |-> [st1 EXCEPT !.cc = Store(@, category_id, category_id)],
          name |-> JNull, odoo |-> NotCalled]
    ELSE
      LET sent == CatalogRequestSent(category_name)
          odoo_id == IF sent
                     THEN get_odoo_category_id(NextResp(st1.env.cat, Len(st1.odoo)))
                     ELSE JNull
          st2 == IF sent
                 THEN [st1 EXCEPT !.odoo = Append(@, [id |-> category_id, name |-> category_name.s]),
                                  !.trace = Append(@, Event("catalog", category_id))]
                 ELSE st1
      IN
      IF odoo_id = JNull
      THEN [ret |-> placeholder_id,
            st |-> [st2 EXCEPT !.cc = Store(@, category_id, placeholder_id)],
            name |-> category_name, odoo |-> JNull]
      ELSE [ret |-> odoo_id.s,
            st |-> [st2 EXCEPT !.cc = Store(@, category_id, odoo_id.s)],
            name |-> category_name, odoo |-> odoo_id]

\* a variant that does not memoize a stage-1 miss
convert_category_id_NoMissCache(category_id, st) ==
  IF ~convert_category_ids
  THEN [ret |-> category_id, st |-> st, name |-> NotCalled, odoo |-> NotCalled]
  ELSE IF category_id \in DOMAIN st.cc
  THEN [ret |-> st.cc[category_id],
        st |-> [st EXCEPT !.trace = Append(@, Event("cache", category_id))],
        name |-> FromCache, odoo |-> FromCache]
  ELSE
    LET category_name == get_wordpress_category_name(NextResp(st.env.name, Len(st.wp)))
        st1 == [st EXCEPT !.wp = Append(@, category_id),
                          !.trace = @ \o <<Event("cache", category_id),
                                           Event("name", category_id)>>]
    IN
    IF category_name = JNull
    THEN [ret |-> category_id, st |-> st1, name |-> JNull, odoo |-> NotCalled]
    ELSE
      LET sent == CatalogRequestSent(category_name)
          odoo_id == IF sent
                     THEN get_odoo_category_id(NextResp(st1.env.cat, Len(st1.odoo)))
                     ELSE JNull
          st2 == IF sent
                 THEN [st1 EXCEPT !.odoo = Append(@, [id |-> category_id, name |-> category_name.s]),
                                  !.trace = Append(@, Event("catalog", category_id))]
                 ELSE st1
      IN
      IF odoo_id = JNull
      THEN [ret |-> placeholder_id,
            st |-> [st2 EXCEPT !.cc = Store(@, category_id, placeholder_id)],
            name |-> category_name, odoo |-> JNull]
      ELSE [ret |-> odoo_id.s,
            st |-> [st2 EXCEPT !.cc = Store(@, category_id, odoo_id.s)],
            name |-> category_name, odoo |-> odoo_id]

\* a variant that falls back to the source id on a catalog miss
convert_category_id_MissKeepsId(category_id, st) ==
  IF ~convert_category_ids
  THEN [ret |-> category_id, st |-> st, name |-> NotCalled, odoo |-> NotCalled]
  ELSE IF category_id \in DOMAIN st.cc
  THEN [ret |-> st.cc[category_id],
        st |-> [st EXCEPT !.trace = Append(@, Event("cache", category_id))],
        name |-> FromCache, odoo |-> FromCache]
  ELSE
    LET category_name == get_wordpress_category_name(NextResp(st.env.name, Len(st.wp)))
        st1 == [st EXCEPT !.wp = Append(@, category_id),
                          !.trace = @ \o <<Event("cache", category_id),
                                           Event("name", category_id)>>]
    IN
    IF category_name = JNull
    THEN [ret |-> category_id,
          st |-> [st1 EXCEPT !.cc = Store(@, category_id, category_id)],
          name |-> JNull, odoo |-> NotCalled]
    ELSE
      LET sent == CatalogRequestSent(category_name)
          odoo_id == IF sent
                     THEN get_odoo_category_id(NextResp(st1.env.cat, Len(st1.odoo)))
                     ELSE JNull
          st2 == IF sent
                 THEN [st1 EXCEPT !.odoo = Append(@, [id |-> category_id, name |-> category_name.s]),
                                  !.trace = Append(@, Event("catalog", category_id))]
                 ELSE st1
      IN
      IF odoo_id = JNull
      THEN [ret |-> category_id,
            st |-> [st2 EXCEPT !.cc = Store(@, category_id, category_id)],
            name |-> category_name, odoo |-> JNull]
      ELSE [ret |-> odoo_id.s,
            st |-> [st2 EXCEPT !.cc = Store(@, category_id, odoo_id.s)],
            name |-> category_name, odoo |-> odoo_id]

\* a variant that looks the id up even when remapping is disabled
convert_category_id_IgnoresFlag(category_id, st) ==
  IF category_id \in DOMAIN st.cc
  THEN [ret |-> st.cc[category_id],
        st |-> [st EXCEPT !.trace = Append(@, Event("cache", category_id))],
        name |-> FromCache, odoo |-> FromCache]
  ELSE
    LET category_name == get_wordpress_category_name(NextResp(st.env.name, Len(st.wp)))
        st1 == [st EXCEPT !.wp = Append(@, category_id),
                          !.trace = @ \o <<Event("cache", category_id),
                                           Event("name", category_id)>>]
    IN
    IF category_name = JNull
    THEN [ret |-> category_id,
          st |-> [st1 EXCEPT !.cc = Store(@, category_id, category_id)],
          name |-> JNull, odoo |-> NotCalled]
    ELSE
      LET sent == CatalogRequestSent(category_name)
          odoo_id == IF sent
                     THEN get_odoo_category_id(NextResp(st1.env.cat, Len(st1.odoo)))
                     ELSE JNull
          st2 == IF sent
                 THEN [st1 EXCEPT !.odoo = Append(@, [id |-> category_id, name |-> category_name.s]),
                                  !.trace = Append(@, Event("catalog", category_id))]
                 ELSE st1
      IN
      IF odoo_id = JNull
      THEN [ret |-> placeholder_id,
            st |-> [st2 EXCEPT !.cc = Store(@, category_id, placeholder_id)],
            name |-> category_name, odoo |-> JNull]
      ELSE [ret |-> odoo_id.s,
            st |-> [st2 EXCEPT !.cc = Store(@, category_id, odoo_id.s)],
            name |-> category_name, odoo |-> odoo_id]

\* convert_category_id(category_id); name and odoo report what the two
\* lookups returned in this call
convert_category_id(category_id, st) ==
  IF ~convert_category_ids
  THEN [ret |-> category_id, st |-> st, name |-> NotCalled, odoo |-> NotCalled]
  ELSE IF category_id \in DOMAIN st.cc
  THEN [ret |-> st.cc[category_id],
        st |-> [st EXCEPT !.trace = Append(@, Event("cache", category_id))],
        name |-> FromCache, odoo |-> FromCache]
  ELSE
    LET category_name == get_wordpress_category_name(NextResp(st.env.name, Len(st.wp)))
        st1 == [st EXCEPT !.wp = Append(@, category_id),
                          !.trace = @ \o <<Event("cache", category_id),
                                           Event("name", category_id)>>]
    IN
    IF category_name = JNull
    THEN [ret |-> category_id,
          st |-> [st1 EXCEPT !.cc = Store(@, category_id, category_id)],
          name |-> JNull, odoo |-> NotCalled]
    ELSE
      LET sent == CatalogRequestSent(category_name)
          odoo_id == IF sent
                     THEN get_odoo_category_id(NextResp(st1.env.cat, Len(st1.odoo)))
                     ELSE JNull
          st2 == IF sent
                 THEN [st1 EXCEPT !.odoo = Append(@, [id |-> category_id, name |-> category_name.s]),
                                  !.trace = Append(@, Event("catalog", category_id))]
                 ELSE st1
      IN
      IF odoo_id = JNull
      THEN [ret |-> placeholder_id,
            st |-> [st2 EXCEPT !.cc = Store(@, category_id, placeholder_id)],
            name |-> category_name, odoo |-> JNull]
      ELSE [ret |-> odoo_id.s,
            st |-> [st2 EXCEPT !.cc = Store(@, category_id, odoo_id.s)],
            name |-> category_name, odoo |-> odoo_id]

(***************************************************************************)
(* CollectionRegrouper: collect_main_category_items.                       *)
(***************************************************************************)
RECURSIVE Flatten(_)
\* the concatenation of a sequence of sequences
Flatten(seqs) == IF Len(seqs) = 0 THEN <<>> ELSE Head(seqs) \o Flatten(Tail(seqs))

RECURSIVE AllMainCategory(_)
\* all(item.get('isMainCategory', False) for item in items) over a list:
\* "true", "false" (at the first falsy flag) or "raise" (an item without .get)
AllMainCategory(items) ==
  IF Len(items) = 0 THEN "true"
  ELSE IF ~IsMap(Head(items)) THEN "raise"
  ELSE IF ~Truthy(Get(Head(items), K_isMainCategory, JBool(FALSE))) THEN "false"
  ELSE AllMainCategory(Tail(items))

\* the same over whatever config.items is
AllItems(items) ==
  CASE items.t = "list" -> AllMainCategory(items.l)
    [] items.t = "map" -> IF Len(items.m) = 0 THEN "true" ELSE "raise"  \* iterates the keys
    [] items.t = "str" -> IF Len(items.s) = 0 THEN "true" ELSE "raise"  \* iterates the characters
    [] OTHER -> "raise"                                                   \* not iterable

\* what the first loop does with one component: "keep", "remove" or "raise"
Examine(component) ==
  IF ~IsMap(component) THEN "raise"
  ELSE IF Get(component, K_layout, JNull) # JStr(K_banner) THEN "keep"
  ELSE LET config == Get(component, K_config, JMap(<<>>)) IN
       IF ~IsMap(config) THEN "raise"
       ELSE LET all == AllItems(Get(config, K_items, JList(<<>>))) IN
            IF all = "true" THEN "remove"
            ELSE IF all = "false" THEN "keep"
            ELSE "raise"

\* the records one removed component appends to main_category_items
ItemRecords(component) ==
  LET items == Get(Get(component, K_config, JMap(<<>>)), K_items, JList(<<>>))
  IN  IF IsList(items)
      THEN [i \in 1..Len(items.l) |->
              JMap(<<KV(K_id, JStr(PyStr(Get(items.l[i], K_category, JNull)))),
                     KV(K_image, Get(items.l[i], K_image, JNull))>>)]
      ELSE <<>>

RECURSIVE Collected(_)
\* main_category_items after the first loop
Collected(components) ==
  IF Len(components) = 0 THEN <<>>
  ELSE (IF Examine(Head(components)) = "remove" THEN ItemRecords(Head(components)) ELSE <<>>)
       \o Collected(Tail(components))

\* the component inserted at index 0
MainCategoryList(main_category_items) ==
  JMap(<<KV(K_layout, JStr(K_mainCategoryList)),
         KV(K_config, JMap(<<KV(K_categories, JList(main_category_items))>>))>>)

\* a variant that extracts a banner as soon as one of its items is a main
\* category
collect_main_category_items_AnyMain(components) ==
  IF \E i \in 1..Len(components) : Examine(components[i]) = "raise"
  THEN Raise("AttributeError or TypeError")
  ELSE LET Extracted(c) ==
             \/ Examine(c) = "remove"
             \/ /\ Get(c, K_layout, JNull) = JStr(K_banner)
                /\ \E j \in 1..Len(ItemRecords(c)) :
                      Truthy(Get(Get(Get(c, K_config, JMap(<<>>)), K_items, JList(<<>>)).l[j],
                                 K_isMainCategory, JBool(FALSE)))
           extracted == SelectSeq(components, Extracted)
           main_category_items == Flatten([i \in 1..Len(extracted) |-> ItemRecords(extracted[i])])
           remaining == SelectSeq(components, LAMBDA c : ~Extracted(c))
       IN  JList(IF Len(main_category_items) > 0
                 THEN <<MainCategoryList(main_category_items)>> \o remaining
                 ELSE remaining)

\* a variant that inserts the new component even when nothing was collected
collect_main_category_items_AlwaysInserts(components) ==
  IF \E i \in 1..Len(components) : Examine(components[i]) = "raise"
  THEN Raise("AttributeError or TypeError")
  ELSE LET main_category_items == Collected(components)
           remaining == SelectSeq(components, LAMBDA c : Examine(c) # "remove")
       IN  JList(<<MainCategoryList(main_category_items)>> \o remaining)

\* a variant that appends the new component instead of inserting it first
collect_main_category_items_Appends(components) ==
  IF \E i \in 1..Len(components) : Examine(components[i]) = "raise"
  THEN Raise("AttributeError or TypeError")
  ELSE LET main_category_items == Collected(components)
           remaining == SelectSeq(components, LAMBDA c : Examine(c) # "remove")
       IN  JList(IF Len(main_category_items) > 0
                 THEN remaining \o <<MainCategoryList(main_category_items)>>
                 ELSE remaining)

\* collect_main_category_items(components): the list returned, or the
\* exception raised by the first loop
collect_main_category_items(components) ==
  IF \E i \in 1..Len(components) : Examine(components[i]) = "raise"
  THEN Raise("AttributeError or TypeError")
  ELSE LET main_category_items == Collected(components)
           remaining == SelectSeq(components, LAMBDA c : Examine(c) # "remove")
       IN  JList(IF Len(main_category_items) > 0
                 THEN <<MainCategoryList(main_category_items)>> \o remaining
                 ELSE remaining)

(***************************************************************************)
(* TreeTransformer: transform_value and transform_data.  Each returns the  *)
(* value built (or the exception raised) and the state it leaves.          *)
(***************************************************************************)
RECURSIVE transform_data(_, _), transform_value(_, _, _), TransformAll(_, _),
          TransformList(_, _, _), TransformPairs(_, _)

\* [self.transform_data(item) for item in items]
TransformAll(items, st) ==
  IF Len(items) = 0 THEN [out |-> <<>>, exc |-> JNull, st |-> st]
  ELSE One({
       IF IsRaise(h.out) THEN [out |-> <<>>, exc |-> h.out, st |-> h.st]
       ELSE One({[out |-> <<h.out>> \o t.out, exc |-> t.exc, st |-> t.st]
                 : t \in {TransformAll(Tail(items), h.st)}})
       : h \in {transform_data(Head(items), st)}})

\* a variant that decides on the look of the string alone, not on the key
TransformList_IgnoresKey(key, items, st) ==
  IF Len(items) = 0 THEN [out |-> <<>>, exc |-> JNull, st |-> st]
  ELSE LET item == Head(items) IN
       One({
         IF IsRaise(h.out) THEN [out |-> <<>>, exc |-> h.out, st |-> h.st]
         ELSE One({[out |-> <<h.out>> \o t.out, exc |-> t.exc, st |-> t.st]
                   : t \in {TransformList(key, Tail(items), h.st)}})
         : h \in {IF IsStr(item) /\ is_image_url(item)
                  THEN create_image_model(item.s, JNull, JNull, st)
                  ELSE transform_data(item, st)}})

\* the list branch of transform_value: the loop over the items of a list
\* stored under key
TransformList(key, items, st) ==
  IF Len(items) = 0 THEN [out |-> <<>>, exc |-> JNull, st |-> st]
  ELSE LET item == Head(items) IN
       One({
         IF IsRaise(h.out) THEN [out |-> <<>>, exc |-> h.out, st |-> h.st]
         ELSE One({[out |-> <<h.out>> \o t.out, exc |-> t.exc, st |-> t.st]
                   : t \in {TransformList(key, Tail(items), h.st)}})
         : h \in {IF IsStr(item) /\ (IsImageField(key) \/ is_image_url(item))
                  THEN create_image_model(item.s, JNull, JNull, st)
                  ELSE transform_data(item, st)}})

\* a variant that returns the remapped id as a string whatever the value was
transform_value_AlwaysString(key, value, st) ==
  IF /\ Lower(key) \in {K_category, K_categoryid}
     /\ value.t \in {"str", "int", "bool"}
     /\ IsDigit(PyStr(value))
  THEN One({[out |-> JStr(c.ret), st |-> c.st]
            : c \in {convert_category_id(PyStr(value), st)}})
  ELSE IF IsStr(value)
  THEN IF IsImageField(key) \/ is_image_url(value)
       THEN create_image_model(value.s, JNull, JNull, st)
       ELSE [out |-> value, st |-> st]
  ELSE IF IsList(value)
  THEN One({[out |-> IF r.exc # JNull THEN r.exc ELSE JList(r.out), st |-> r.st]
            : r \in {TransformList(key, value.l, st)}})
  ELSE IF IsMap(value) THEN transform_data(value, st)
  ELSE [out |-> value, st |-> st]

\* transform_value(key, value)
transform_value(key, value, st) ==
  IF /\ Lower(key) \in {K_category, K_categoryid}
     /\ value.t \in {"str", "int", "bool"}
     /\ IsDigit(PyStr(value))
  THEN One({
       IF value.t \in {"int", "bool"}
       THEN [out |-> IF IsIntLiteral(c.ret) THEN JInt(StrToInt(c.ret)) ELSE JStr(c.ret),
             st |-> c.st]
       ELSE [out |-> JStr(c.ret), st |-> c.st]
       : c \in {convert_category_id(PyStr(value), st)}})
  ELSE IF IsStr(value)
  THEN IF IsImageField(key) \/ is_image_url(value)
       THEN create_image_model(value.s, JNull, JNull, st)
       ELSE [out |-> value, st |-> st]
  ELSE IF IsList(value)
  THEN One({[out |-> IF r.exc # JNull THEN r.exc ELSE JList(r.out), st |-> r.st]
            : r \in {TransformList(key, value.l, st)}})
  ELSE IF IsMap(value) THEN transform_data(value, st)
  ELSE [out |-> value, st |-> st]

\* a variant that regroups the components before it transforms them
TransformPairs_RegroupsFirst(pairs, st) ==
  IF Len(pairs) = 0 THEN [out |-> <<>>, exc |-> JNull, st |-> st]
  ELSE LET key == Head(pairs).k
           value == Head(pairs).v
       IN
       One({
         IF IsRaise(h.out) THEN [out |-> <<>>, exc |-> h.out, st |-> h.st]
         ELSE One({[out |-> <<KV(key, h.out)>> \o t.out, exc |-> t.exc, st |-> t.st]
                   : t \in {TransformPairs(Tail(pairs), h.st)}})
         : h \in {IF key = K_components /\ IsList(value)
                  THEN One({IF IsRaise(c) THEN [out |-> c, st |-> st]
                            ELSE One({[out |-> IF r.exc # JNull THEN r.exc ELSE JList(r.out),
                                       st |-> r.st]
                                      : r \in {TransformAll(c.l,
                                                  [st EXCEPT !.trace = Append(@, Event("regroup", key))])}})
                            : c \in {collect_main_category_items(value.l)}})
                  ELSE transform_value(key, value, st)}})

\* the loop of transform_data over the pairs of a mapping
TransformPairs(pairs, st) ==
  IF Len(pairs) = 0 THEN [out |-> <<>>, exc |-> JNull, st |-> st]
  ELSE LET key == Head(pairs).k
           value == Head(pairs).v
       IN
       One({
         IF IsRaise(h.out) THEN [out |-> <<>>, exc |-> h.out, st |-> h.st]
         ELSE One({[out |-> <<KV(key, h.out)>> \o t.out, exc |-> t.exc, st |-> t.st]
                   : t \in {TransformPairs(Tail(pairs), h.st)}})
         : h \in {IF key = K_components /\ IsList(value)
                  THEN One({[out |-> IF r.exc # JNull THEN r.exc
                                     ELSE collect_main_category_items(r.out),
                             st |-> IF r.exc # JNull THEN r.st
                                    ELSE [r.st EXCEPT !.trace = Append(@, Event("regroup", key))]]
                            : r \in {TransformAll(value.l, st)}})
                  ELSE transform_value(key, value, st)}})

\* transform_data(data)
transform_data(data, st) ==
  IF IsMap(data)
  THEN One({[out |-> IF r.exc # JNull THEN r.exc ELSE JMap(r.out), st |-> r.st]
            : r \in {TransformPairs(data.m, st)}})
  ELSE IF IsList(data)
  THEN One({[out |-> IF r.exc # JNull THEN r.exc ELSE JList(r.out), st |-> r.st]
            : r \in {TransformAll(data.l, st)}})
  ELSE [out |-> data, st |-> st]

(***************************************************************************)
(* Inputs and responses the operations are tried on.                       *)
(***************************************************************************)
S_42 == <<"4","2">>
S_7 == <<"7">>
S_Shoes == <<"S","h","o","e","s">>
S_Bags == <<"B","a","g","s">>
S_error == <<"e","r","r","o","r">>
U_a_png == <<"a",".","p","n","g">>
U_A_png == <<"A",".","p","n","g">>

CategoryIds == {S_42, S_7}

ImageUrls == {U_a_png, U_A_png}

NameRecord(name) == Http(200, JList(<<JMap(<<KV(K_name, name)>>)>>))

NameResponses ==
  { Exception,                                \* network error or timeout
    Http(404, Undecodable),
    Http(200, Undecodable),
    Http(200, JList(<<>>)),                   \* no record
    Http(200, JMap(<<KV(K_status, JStr(S_error))>>)),
    Http(200, JList(<<JMap(<<>>)>>)),         \* a record without a name
    NameRecord(JNull),
    NameRecord(JInt(5)),
    NameRecord(JStr(S_Shoes)),
    NameRecord(JStr(S_Bags)) }

CatalogBody(status, data) == JMap(<<KV(K_status, JStr(status)), KV(K_data, data)>>)

CatalogMatch(matta_id) ==
  Http(200, CatalogBody(K_success, JList(<<JMap(<<KV(K_mattaId, matta_id)>>)>>)))

CatalogResponses ==
  { Exception,
    Http(500, Undecodable),
    Http(200, Undecodable),
    Http(200, CatalogBody(S_error, JList(<<>>))),
    Http(200, CatalogBody(K_success, JList(<<>>))),
    Http(200, CatalogBody(K_success, JList(<<JMap(<<>>)>>))),
    CatalogMatch(JInt(777)),
    CatalogMatch(JInt(42)),
    CatalogMatch(JInt(1139)),
    CatalogMatch(JInt(0)) }

DimResponses ==
  { Exception,
    Http(404, Undecodable),
    Http(200, Undecodable),
    Http(200, ImageBytes(10, 20)),
    Http(200, ImageBytes(30, 40)) }

(***************************************************************************)
(* The instance after __init__ and the single-call operations.             *)
(***************************************************************************)
EmptyCache == <<>>

NoFirst == [cat |-> <<>>, dim |-> <<>>]

\* the first value returned for a key is kept, later ones are not recorded
First(f, key, value) == IF key \in DOMAIN f THEN f ELSE Store(f, key, value)

\* __init__ with the given flags
Constructed(fetch, cache, convert) ==
  /\ fetch_dimensions = fetch
  /\ cache_dimensions = cache
  /\ convert_category_ids = convert
  /\ dimension_cache = EmptyCache
  /\ category_cache = EmptyCache
  /\ get_log = <<>>
  /\ wp_log = <<>>
  /\ odoo_log = <<>>
  /\ first_ret = NoFirst
  /\ last = [op |-> "none"]
  /\ steps = 0

Flags == <<fetch_dimensions, cache_dimensions, convert_category_ids>>

\* one call of convert_category_id(category_id), the two services answering
\* nresp and cresp if asked
ConvertCategoryId(category_id, nresp, cresp) ==
  /\ steps < MaxSteps
  /\ \E r \in {convert_category_id(category_id,
                 Start(dimension_cache, category_cache,
                       [dim |-> <<>>, name |-> <<nresp>>, cat |-> <<cresp>>]))},
        \* what the call would return if nothing were cached
        fresh \in {convert_category_id(category_id,
                     Start(EmptyCache, EmptyCache,
                           [dim |-> <<>>, name |-> <<nresp>>, cat |-> <<cresp>>]))} :
         /\ category_cache' = r.st.cc
         /\ wp_log' = wp_log \o r.st.wp
         /\ odoo_log' = odoo_log \o r.st.odoo
         /\ first_ret' = [first_ret EXCEPT !.cat = First(@, category_id, r.ret)]
         /\ last' = [op |-> "convert_category_id", arg |-> category_id,
                     ret |-> r.ret, name |-> r.name, odoo |-> r.odoo,
                     cresp |-> IF r.st.odoo = <<>> THEN NotCalled ELSE cresp,
                     cc_before |-> category_cache,
                     wp |-> r.st.wp, odoo_calls |-> r.st.odoo,
                     trace |-> r.st.trace,
                     would_differ |-> fresh.ret # r.ret]
  /\ steps' = steps + 1
  /\ UNCHANGED <<Flags, dimension_cache, get_log>>

\* one call of get_image_dimensions(image_url), the origin answering resp if asked
GetImageDimensions(image_url, resp) ==
  /\ steps < MaxSteps
  /\ \E r \in {get_image_dimensions(image_url,
                 Start(dimension_cache, category_cache,
                       [dim |-> <<resp>>, name |-> <<>>, cat |-> <<>>]))} :
         /\ dimension_cache' = r.st.dc
         /\ get_log' = get_log \o r.st.gets
         /\ first_ret' = [first_ret EXCEPT !.dim = First(@, image_url, r.ret)]
         /\ last' = [op |-> "get_image_dimensions", arg |-> image_url,
                     ret |-> r.ret,
                     dc_before |-> dimension_cache, gets |-> r.st.gets,
                     would_differ |-> FetchSize(resp) # r.ret]
  /\ steps' = steps + 1
  /\ UNCHANGED <<Flags, category_cache, wp_log, odoo_log>>

\* sequences of category lookups on one instance
InitCat == \E convert \in BOOLEAN : Constructed(TRUE, TRUE, convert)

NextCat ==
  \E category_id \in CategoryIds, nresp \in NameResponses, cresp \in CatalogResponses :
     ConvertCategoryId(category_id, nresp, cresp)

SpecCat == InitCat /\ [][NextCat]_vars

\* sequences of dimension lookups on one instance
InitDim == \E fetch \in BOOLEAN, cache \in BOOLEAN : Constructed(fetch, cache, TRUE)

NextDim ==
  \E image_url \in ImageUrls, resp \in DimResponses :
     GetImageDimensions(image_url, resp)

SpecDim == InitDim /\ [][NextDim]_vars

(***************************************************************************)
(* Component arrays the regrouping pass is tried on.                       *)
(***************************************************************************)
S_hello == <<"h","e","l","l","o">>
S_grid == <<"g","r","i","d">>
K_title == <<"t","i","t","l","e">>
K_thumbnail == <<"t","h","u","m","b","n","a","i","l">>
K_Icon == <<"I","c","o","n">>
K_categoryId == <<"c","a","t","e","g","o","r","y","I","d">>
K_page == <<"p","a","g","e">>
U_img_x == <<"/","i","m","g","/","x">>

\* sequences over S of length at most n
RECURSIVE SeqsUpTo(_, _)
SeqsUpTo(S, n) ==
  IF n = 0 THEN {<<>>}
  ELSE LET shorter == SeqsUpTo(S, n - 1)
       IN  shorter \cup {Append(q, x) : q \in {r \in shorter : Len(r) = n - 1}, x \in S}

Banner(items) ==
  JMap(<<KV(K_layout, JStr(K_banner)), KV(K_config, JMap(<<KV(K_items, items)>>))>>)

MainItem ==
  JMap(<<KV(K_isMainCategory, JBool(TRUE)), KV(K_category, JInt(7)),
         KV(K_image, JStr(U_a_png))>>)

BareMainItem == JMap(<<KV(K_isMainCategory, JBool(TRUE))>>)

OtherItem ==
  JMap(<<KV(K_isMainCategory, JBool(FALSE)), KV(K_category, JStr(S_42)),
         KV(K_image, JStr(U_A_png))>>)

UnflaggedItem == JMap(<<KV(K_category, JStr(S_42))>>)

RegroupItems == {MainItem, BareMainItem, OtherItem}

GridComponent == JMap(<<KV(K_layout, JStr(S_grid))>>)

RegroupComponents ==
  {Banner(JList(items)) : items \in SeqsUpTo(RegroupItems, MaxItems)}
  \cup { Banner(JList(<<UnflaggedItem>>)),
         JMap(<<KV(K_layout, JStr(K_banner))>>),      \* no config
         Banner(JNull),                               \* items is not iterable
         GridComponent,
         JInt(5) }                                    \* not a mapping

ComponentArrays == SeqsUpTo(RegroupComponents, MaxComponents)

\* collect_main_category_items applied to the array drawn at the start
CollectMainCategoryItems ==
  /\ last.op = "components"
  /\ last' = [op |-> "collect_main_category_items", components |-> last.components,
              ret |-> collect_main_category_items(last.components)]
  /\ UNCHANGED <<Flags, dimension_cache, category_cache, get_log, wp_log, odoo_log,
                 first_ret, steps>>

InitRegroup ==
  /\ \E components \in ComponentArrays : last = [op |-> "components", components |-> components]
  /\ fetch_dimensions = TRUE
  /\ cache_dimensions = TRUE
  /\ convert_category_ids = TRUE
  /\ dimension_cache = EmptyCache
  /\ category_cache = EmptyCache
  /\ get_log = <<>>
  /\ wp_log = <<>>
  /\ odoo_log = <<>>
  /\ first_ret = NoFirst
  /\ steps = 0

NextRegroup == CollectMainCategoryItems

SpecRegroup == InitRegroup /\ [][NextRegroup]_vars

(***************************************************************************)
(* Documents the transform is tried on, and the transform of a document.   *)
(***************************************************************************)
Obj(k, v) == JMap(<<KV(k, v)>>)

FlatKeys == {K_image, K_Icon, K_title, K_category, K_categoryId}

FlatValues ==
  { JNull, JBool(TRUE), JInt(7), JInt(-5),
    JStr(S_hello), JStr(U_a_png), JStr(U_img_x), JStr(S_42),
    JList(<<JStr(U_a_png), JInt(7)>>),
    JList(<<JStr(S_hello)>>),
    JList(<<JList(<<JStr(U_a_png)>>)>>),
    JList(<<JStr(S_hello), Obj(K_Icon, JStr(S_hello))>>),
    Obj(K_image, JStr(S_hello)),
    Obj(K_category, JInt(7)) }

FlatDocuments == {Obj(k, v) : k \in FlatKeys, v \in FlatValues}

\* a document without image or category fields whose components all stay
PlainComponentsDocument ==
  JMap(<<KV(K_title, JStr(S_hello)),
         KV(K_components,
            JList(<<GridComponent,
                    Banner(JList(<<JMap(<<KV(K_isMainCategory, JBool(FALSE)),
                                          KV(K_title, JStr(S_hello))>>)>>))>>))>>)

OtherDocuments ==
  { PlainComponentsDocument,
    JStr(U_a_png),
    JInt(7),
    JList(<<JStr(U_a_png), Obj(K_image, JStr(U_a_png))>>),
    JMap(<<KV(K_category, JStr(S_42)), KV(K_image, JStr(U_a_png))>>),
    JMap(<<KV(K_image, JStr(U_a_png)), KV(K_thumbnail, JStr(U_a_png))>>),
    JMap(<<KV(K_category, JStr(S_42)), KV(K_categoryId, JInt(42))>>) }

DocComponents ==
  { JMap(<<KV(K_layout, JStr(S_grid)), KV(K_image, JStr(U_a_png))>>),
    Banner(JList(<<JMap(<<KV(K_isMainCategory, JBool(TRUE)), KV(K_category, JInt(7)),
                          KV(K_image, JStr(U_a_png)), KV(K_thumbnail, JStr(S_hello))>>)>>)),
    Banner(JList(<<JMap(<<KV(K_isMainCategory, JBool(TRUE)), KV(K_title, JStr(S_hello))>>)>>)),
    Banner(JList(<<JMap(<<KV(K_isMainCategory, JBool(TRUE)), KV(K_category, JStr(S_42)),
                          KV(K_image, JStr(U_A_png))>>),
                   JMap(<<KV(K_isMainCategory, JBool(FALSE))>>)>>)),
    Banner(JList(<<>>)),
    JInt(5) }

\* documents with a `components` array of none, one or two of these, at the
\* top or one level down
ComponentDocuments ==
  {Obj(K_components, JList(<<>>))}
  \cup {Obj(K_components, JList(<<c>>)) : c \in DocComponents}
  \cup {Obj(K_components, JList(<<c, d>>)) : c \in DocComponents, d \in DocComponents}
  \cup {Obj(K_page, Obj(K_components, JList(<<c>>))) : c \in DocComponents}

Documents == FlatDocuments \cup OtherDocuments \cup ComponentDocuments

\* the answers drawn for the requests of a transform
TransformDimResponses == {Exception, Http(200, ImageBytes(10, 20)), Http(200, ImageBytes(30, 40))}

TransformNameResponses == {Http(200, JList(<<>>)), NameRecord(JStr(S_Shoes))}

TransformCatalogResponses == {Http(200, CatalogBody(K_success, JList(<<>>))), CatalogMatch(JInt(777))}

\* one run of transform_data on the document drawn at the start; every
\* request the run sends is answered by a response drawn for it
TransformData ==
  /\ last.op \in {"document", "transform_data"}
  /\ steps < MaxRuns
  /\ LET doc == last.doc IN
     \E dry \in {transform_data(doc, Start(dimension_cache, category_cache, NoStreams))} :
     \E ds \in [1..Len(dry.st.gets) -> TransformDimResponses],
        ns \in [1..Len(dry.st.wp) -> TransformNameResponses] :
     \E named \in {transform_data(doc, Start(dimension_cache, category_cache,
                                           [dim |-> ds, name |-> ns, cat |-> <<>>]))} :
     \E cs \in [1..Len(named.st.odoo) -> TransformCatalogResponses] :
     \E r \in {transform_data(doc, Start(dimension_cache, category_cache,
                                       [dim |-> ds, name |-> ns, cat |-> cs]))} :
                     /\ dimension_cache' = r.st.dc
                     /\ category_cache' = r.st.cc
                     /\ get_log' = get_log \o r.st.gets
                     /\ wp_log' = wp_log \o r.st.wp
                     /\ odoo_log' = odoo_log \o r.st.odoo
                     /\ last' = [op |-> "transform_data", doc |-> doc, out |-> r.out,
                                 gets |-> r.st.gets, wp |-> r.st.wp, odoo |-> r.st.odoo,
                                 made |-> r.st.made, trace |-> r.st.trace,
                                 \* this output against the preceding run's
                                 prev |-> IF last.op # "transform_data" THEN "none"
                                          ELSE IF IsRaise(last.out) THEN "raised"
                                          ELSE IF r.out = last.out THEN "same"
                                          ELSE "differs",
                                 dc_before |-> dimension_cache,
                                 cc_before |-> category_cache]
  /\ steps' = steps + 1
  /\ UNCHANGED <<Flags, first_ret>>

InitTransform ==
  /\ \E doc \in Documents : last = [op |-> "document", doc |-> doc]
  /\ fetch_dimensions \in BOOLEAN
  /\ cache_dimensions \in BOOLEAN
  /\ convert_category_ids \in BOOLEAN
  /\ dimension_cache = EmptyCache
  /\ category_cache = EmptyCache
  /\ get_log = <<>>
  /\ wp_log = <<>>
  /\ odoo_log = <<>>
  /\ first_ret = NoFirst
  /\ steps = 0

NextTransform == TransformData

SpecTransform == InitTransform /\ [][NextTransform]_vars

(***************************************************************************)
(* The transform of a document while the services answer in any way, their *)
(* failures included.                                                      *)
(***************************************************************************)
ServiceDocuments ==
  { JMap(<<KV(K_category, JStr(S_42)), KV(K_image, JStr(U_a_png))>>),
    JMap(<<KV(K_image, JStr(U_a_png)), KV(K_thumbnail, JStr(U_a_png))>>),
    JMap(<<KV(K_category, JInt(7)), KV(K_categoryId, JStr(S_7))>>),
    Obj(K_categoryId, JInt(42)),
    Obj(K_components,
        JList(<<Banner(JList(<<MainItem>>)),
                JMap(<<KV(K_layout, JStr(S_grid)), KV(K_Icon, JStr(U_A_png))>>)>>)) }

\* a target id may also come as a string that is no number
ServiceCatalogResponses == CatalogResponses \cup {CatalogMatch(JStr(S_Bags))}

\* one run of transform_data on the document drawn at the start, every
\* request answered by any response of the service
TransformWithServices ==
  /\ last.op \in {"document", "transform_data"}
  /\ steps < MaxRuns
  /\ LET doc == last.doc IN
     \E dry \in {transform_data(doc, Start(dimension_cache, category_cache, NoStreams))} :
     \E ds \in [1..Len(dry.st.gets) -> DimResponses],
        ns \in [1..Len(dry.st.wp) -> NameResponses] :
     \E named \in {transform_data(doc, Start(dimension_cache, category_cache,
                                           [dim |-> ds, name |-> ns, cat |-> <<>>]))} :
     \E cs \in [1..Len(named.st.odoo) -> ServiceCatalogResponses] :
     \E r \in {transform_data(doc, Start(dimension_cache, category_cache,
                                       [dim |-> ds, name |-> ns, cat |-> cs]))} :
                     /\ dimension_cache' = r.st.dc
                     /\ category_cache' = r.st.cc
                     /\ get_log' = get_log \o r.st.gets
                     /\ wp_log' = wp_log \o r.st.wp
                     /\ odoo_log' = odoo_log \o r.st.odoo
                     /\ last' = [op |-> "transform_data", doc |-> doc, out |-> r.out,
                                 gets |-> r.st.gets, wp |-> r.st.wp, odoo |-> r.st.odoo,
                                 made |-> r.st.made, trace |-> r.st.trace,
                                 ds |-> ds, ns |-> ns, cs |-> cs,
                                 dc_before |-> dimension_cache,
                                 cc_before |-> category_cache]
  /\ steps' = steps + 1
  /\ UNCHANGED <<Flags, first_ret>>

InitServices ==
  /\ \E doc \in ServiceDocuments : last = [op |-> "document", doc |-> doc]
  /\ fetch_dimensions \in BOOLEAN
  /\ cache_dimensions \in BOOLEAN
  /\ convert_category_ids \in BOOLEAN
  /\ dimension_cache = EmptyCache
  /\ category_cache = EmptyCache
  /\ get_log = <<>>
  /\ wp_log = <<>>
  /\ odoo_log = <<>>
  /\ first_ret = NoFirst
  /\ steps = 0

NextServices == TransformWithServices

SpecServices == InitServices /\ [][NextServices]_vars

(***************************************************************************)
(* The same transform on a heap of mutable nodes.  A heap is a sequence of *)
(* nodes, the address of a node its index.  A dict node holds its pairs    *)
(* and a list node its elements; what they hold is a slot: a reference to  *)
(* a node, or an immutable value (None, bool, int, str) itself.            *)
(***************************************************************************)
Ref(a) == [t |-> "ref", a |-> a]
IsRef(x) == x.t = "ref"
MapNode(m) == [t |-> "map", m |-> m]
ListNode(l) == [t |-> "list", l |-> l]

\* a new dict or list object
Alloc(h, node) == [ref |-> Ref(Len(h) + 1), h |-> Append(h, node)]

RECURSIVE Build(_, _), BuildAll(_, _), BuildPairs(_, _)
\* json.loads: the object tree of a JSON value, built from new nodes
Build(v, h) ==
  IF IsMap(v) THEN One({Alloc(r.h, MapNode(r.out)) : r \in {BuildPairs(v.m, h)}})
  ELSE IF IsList(v) THEN One({Alloc(r.h, ListNode(r.out)) : r \in {BuildAll(v.l, h)}})
  ELSE [ref |-> v, h |-> h]

BuildAll(items, h) ==
  IF Len(items) = 0 THEN [out |-> <<>>, h |-> h]
  ELSE One({One({[out |-> <<x.ref>> \o r.out, h |-> r.h]
                 : r \in {BuildAll(Tail(items), x.h)}})
            : x \in {Build(Head(items), h)}})

BuildPairs(pairs, h) ==
  IF Len(pairs) = 0 THEN [out |-> <<>>, h |-> h]
  ELSE One({One({[out |-> <<KV(Head(pairs).k, x.ref)>> \o r.out, h |-> r.h]
                 : r \in {BuildPairs(Tail(pairs), x.h)}})
            : x \in {Build(Head(pairs).v, h)}})

RECURSIVE Deref(_, _)
\* the JSON value a slot stands for
Deref(x, h) ==
  IF ~IsRef(x) THEN x
  ELSE LET n == h[x.a] IN
       IF n.t = "map"
       THEN JMap([i \in 1..Len(n.m) |-> KV(n.m[i].k, Deref(n.m[i].v, h))])
       ELSE JList([i \in 1..Len(n.l) |-> Deref(n.l[i], h)])

RECURSIVE Reach(_, _)
\* the addresses of the nodes reachable from a slot
Reach(x, h) ==
  IF ~IsRef(x) THEN {}
  ELSE LET n == h[x.a]
           children == IF n.t = "map" THEN {n.m[i].v : i \in 1..Len(n.m)}
                       ELSE {n.l[i] : i \in 1..Len(n.l)}
       IN  {x.a} \cup UNION {Reach(c, h) : c \in children}

\* copy.deepcopy
DeepCopy(x, h) == Build(Deref(x, h), h)

\* d.get(key, default) on a dict node
HGet(n, key, default) ==
  IF \E i \in 1..Len(n.m) : n.m[i].k = key
  THEN n.m[CHOOSE i \in 1..Len(n.m) : n.m[i].k = key].v
  ELSE default

\* the elements of component.get('config', {}).get('items', []) when it is a list
HItems(c, h) ==
  LET config == HGet(h[c.a], K_config, JNull) IN
  IF ~IsRef(config) THEN <<>>
  ELSE LET items == HGet(h[config.a], K_items, JNull) IN
       IF IsRef(items) /\ h[items.a].t = "list" THEN h[items.a].l ELSE <<>>

\* collect_main_category_items(components) on the list object at address a:
\* it removes and inserts in that object and returns it
collect_main_category_items_on_heap(a, h) ==
  LET components == h[a].l
      verdict == [i \in 1..Len(components) |-> Examine(Deref(components[i], h))]
  IN
  IF \E i \in 1..Len(components) : verdict[i] = "raise"
  THEN [out |-> Raise("AttributeError or TypeError"), h |-> h]
  ELSE
    LET index == [i \in 1..Len(components) |-> i]
        removed == SelectSeq(index, LAMBDA i : verdict[i] = "remove")
        remaining == [k \in 1..Len(SelectSeq(index, LAMBDA i : verdict[i] # "remove")) |->
                        components[SelectSeq(index, LAMBDA i : verdict[i] # "remove")[k]]]
        items == Flatten([k \in 1..Len(removed) |-> HItems(components[removed[k]], h)])
        n == Len(items)
        \* main_category_items.append({'id': str(item.get('category')), 'image': item.get('image')})
        records == [j \in 1..n |->
                      MapNode(<<KV(K_id, JStr(PyStr(Deref(HGet(h[items[j].a], K_category, JNull), h)))),
                                KV(K_image, HGet(h[items[j].a], K_image, JNull))>>)]
        base == Len(h)
        main_category_items == ListNode([j \in 1..n |-> Ref(base + j)])
        config == MapNode(<<KV(K_categories, Ref(base + n + 1))>>)
        inserted == MapNode(<<KV(K_layout, JStr(K_mainCategoryList)),
                              KV(K_config, Ref(base + n + 2))>>)
    IN
    IF n = 0
    THEN [out |-> Ref(a), h |-> [h EXCEPT ![a] = ListNode(remaining)]]
    ELSE [out |-> Ref(a),
          h |-> [(h \o records \o <<main_category_items, config, inserted>>)
                   EXCEPT ![a] = ListNode(<<Ref(base + n + 3)>> \o remaining)]]

\* a variant that writes the transformed elements back into the list it read
ComponentsList_InPlace(a, items, h) ==
  [ref |-> Ref(a), h |-> [h EXCEPT ![a] = ListNode(items)]]

\* [self.transform_data(item) for item in value]: a new list of the
\* transformed elements of the list at address a
ComponentsList(a, items, h) == Alloc(h, ListNode(items))

RECURSIVE transform_data_on_heap(_, _, _), transform_value_on_heap(_, _, _, _),
          TransformAllOnHeap(_, _, _), TransformListOnHeap(_, _, _, _),
          TransformPairsOnHeap(_, _, _)

\* what transform_value builds from an immutable value: the value-level
\* result, a descriptor being a new dict
Immutable(key, x, h, st) ==
  One({IF IsMap(r.out)
       THEN One({[out |-> n.ref, h |-> n.h, st |-> r.st] : n \in {Alloc(h, MapNode(r.out.m))}})
       ELSE [out |-> r.out, h |-> h, st |-> r.st]
       : r \in {transform_value(key, x, st)}})

\* [self.transform_data(item) for item in items]
TransformAllOnHeap(items, h, st) ==
  IF Len(items) = 0 THEN [out |-> <<>>, exc |-> JNull, h |-> h, st |-> st]
  ELSE One({
       IF IsRaise(x.out) THEN [out |-> <<>>, exc |-> x.out, h |-> x.h, st |-> x.st]
       ELSE One({[out |-> <<x.out>> \o r.out, exc |-> r.exc, h |-> r.h, st |-> r.st]
                 : r \in {TransformAllOnHeap(Tail(items), x.h, x.st)}})
       : x \in {transform_data_on_heap(Head(items), h, st)}})

\* the loop of the list branch of transform_value
TransformListOnHeap(key, items, h, st) ==
  IF Len(items) = 0 THEN [out |-> <<>>, exc |-> JNull, h |-> h, st |-> st]
  ELSE LET item == Head(items) IN
       One({
         IF IsRaise(x.out) THEN [out |-> <<>>, exc |-> x.out, h |-> x.h, st |-> x.st]
         ELSE One({[out |-> <<x.out>> \o r.out, exc |-> r.exc, h |-> r.h, st |-> r.st]
                   : r \in {TransformListOnHeap(key, Tail(items), x.h, x.st)}})
         : x \in {IF IsStr(item) /\ (IsImageField(key) \/ is_image_url(item))
                  THEN One({One({[out |-> n.ref, h |-> n.h, st |-> d.st]
                                 : n \in {Alloc(h, MapNode(d.out.m))}})
                            : d \in {create_image_model(item.s, JNull, JNull, st)}})
                  ELSE transform_data_on_heap(item, h, st)}})

\* transform_value(key, value)
transform_value_on_heap(key, x, h, st) ==
  IF ~IsRef(x) THEN Immutable(key, x, h, st)
  ELSE IF h[x.a].t = "list"
  THEN One({IF r.exc # JNull THEN [out |-> r.exc, h |-> r.h, st |-> r.st]
            ELSE One({[out |-> n.ref, h |-> n.h, st |-> r.st]
                      : n \in {Alloc(r.h, ListNode(r.out))}})
            : r \in {TransformListOnHeap(key, h[x.a].l, h, st)}})
  ELSE transform_data_on_heap(x, h, st)

\* the loop of transform_data over the pairs of a dict
TransformPairsOnHeap(pairs, h, st) ==
  IF Len(pairs) = 0 THEN [out |-> <<>>, exc |-> JNull, h |-> h, st |-> st]
  ELSE LET key == Head(pairs).k
           value == Head(pairs).v
       IN
       One({
         IF IsRaise(x.out) THEN [out |-> <<>>, exc |-> x.out, h |-> x.h, st |-> x.st]
         ELSE One({[out |-> <<KV(key, x.out)>> \o r.out, exc |-> r.exc, h |-> r.h, st |-> r.st]
                   : r \in {TransformPairsOnHeap(Tail(pairs), x.h, x.st)}})
         : x \in {IF key = K_components /\ IsRef(value) /\ h[value.a].t = "list"
                  THEN One({IF r.exc # JNull THEN [out |-> r.exc, h |-> r.h, st |-> r.st]
                            ELSE One({One({[out |-> c.out, h |-> c.h,
                                            st |-> IF IsRaise(c.out) THEN r.st
                                                   ELSE [r.st EXCEPT !.trace =
                                                           Append(@, Event("regroup", key))]]
                                           : c \in {collect_main_category_items_on_heap(n.ref.a, n.h)}})
                                      : n \in {ComponentsList(value.a, r.out, r.h)}})
                            : r \in {TransformAllOnHeap(h[value.a].l, h, st)}})
                  ELSE transform_value_on_heap(key, value, h, st)}})

\* transform_data(data): a new dict for a dict, a new list for a list, the
\* value itself otherwise
transform_data_on_heap(x, h, st) ==
  IF ~IsRef(x) THEN [out |-> x, h |-> h, st |-> st]
  ELSE IF h[x.a].t = "map"
  THEN One({IF r.exc # JNull THEN [out |-> r.exc, h |-> r.h, st |-> r.st]
            ELSE One({[out |-> n.ref, h |-> n.h, st |-> r.st]
                      : n \in {Alloc(r.h, MapNode(r.out))}})
            : r \in {TransformPairsOnHeap(h[x.a].m, h, st)}})
  ELSE One({IF r.exc # JNull THEN [out |-> r.exc, h |-> r.h, st |-> r.st]
            ELSE One({[out |-> n.ref, h |-> n.h, st |-> r.st]
                      : n \in {Alloc(r.h, ListNode(r.out))}})
            : r \in {TransformAllOnHeap(h[x.a].l, h, st)}})

\* the services either fail every request or answer every request
AnsweredStreams ==
  { NoStreams,
    [dim |-> [i \in 1..MaxRequests |-> Http(200, ImageBytes(10, 20))],
     name |-> [i \in 1..MaxRequests |-> NameRecord(JStr(S_Shoes))],
     cat |-> [i \in 1..MaxRequests |-> CatalogMatch(JInt(777))]] }

\* what a run on the heap leaves in the instance and in the record of the run
Ran(entry, r) ==
  /\ dimension_cache' = r.st.dc
  /\ category_cache' = r.st.cc
  /\ get_log' = get_log \o r.st.gets
  /\ wp_log' = wp_log \o r.st.wp
  /\ odoo_log' = odoo_log \o r.st.odoo
  /\ last' = [op |-> entry, doc |-> last.doc, root |-> last.root,
              heap_before |-> last.heap, heap |-> r.h, out |-> r.out,
              dc_before |-> dimension_cache, cc_before |-> category_cache]
  /\ steps' = steps + 1
  /\ UNCHANGED <<Flags, first_ret>>

\* transform_json_string on the parsed document: deep copy, then transform_data
TransformJsonString(env) ==
  /\ "heap" \in DOMAIN last
  /\ steps < MaxRuns
  /\ \E data_copy \in {DeepCopy(last.root, last.heap)} :
     \E r \in {transform_data_on_heap(data_copy.ref, data_copy.h,
                                      Start(dimension_cache, category_cache, env))} :
        Ran("transform_json_string", r)

\* transform_data called on the parsed document itself
TransformDataDirectly(env) ==
  /\ "heap" \in DOMAIN last
  /\ steps < MaxRuns
  /\ \E r \in {transform_data_on_heap(last.root, last.heap,
                                      Start(dimension_cache, category_cache, env))} :
        Ran("transform_data", r)

InitHeap ==
  /\ \E doc \in Documents :
       \E data \in {Build(doc, <<>>)} :
          last = [op |-> "json.loads", doc |-> doc, root |-> data.ref, heap |-> data.h]
  /\ fetch_dimensions \in BOOLEAN
  /\ cache_dimensions \in BOOLEAN
  /\ convert_category_ids \in BOOLEAN
  /\ dimension_cache = EmptyCache
  /\ category_cache = EmptyCache
  /\ get_log = <<>>
  /\ wp_log = <<>>
  /\ odoo_log = <<>>
  /\ first_ret = NoFirst
  /\ steps = 0

NextHeap ==
  \/ \E env \in AnsweredStreams : TransformJsonString(env)
  \/ \E env \in AnsweredStreams : TransformDataDirectly(env)

SpecHeap == InitHeap /\ [][NextHeap]_vars

\* number of elements of a sequence that satisfy Test
Count(seq, Test(_)) == Cardinality({i \in 1..Len(seq) : Test(seq[i])})

(***************************************************************************)
(* C3.  With remapping enabled and no cache entry for the id, the value    *)
(* convert_category_id returns is decided by the two lookups: the source   *)
(* id when the name lookup returned no name; the placeholder "1139" when   *)
(* it returned a name and the catalog lookup returned no id; the id of the *)
(* catalog's answer, as a decimal string, when both returned a value.      *)
(***************************************************************************)
IsFreshConvert ==
  /\ last.op = "convert_category_id"
  /\ convert_category_ids
  /\ last.arg \notin DOMAIN last.cc_before

\* the target id carried by a catalog response that matched
MattaIdOf(resp) == Lookup(Lookup(resp.body, K_data).l[1], K_mattaId)

C3_ThreeWayResult ==
  IsFreshConvert =>
    /\ last.name = JNull => last.ret = last.arg /\ last.odoo = NotCalled
    /\ (last.name # JNull /\ last.odoo = JNull) => last.ret = placeholder_id
    /\ (last.name # JNull /\ last.odoo # JNull) =>
          /\ last.cresp \in {CatalogMatch(JInt(n)) : n \in {42, 777, 1139}}
          /\ last.ret = IntToStr(MattaIdOf(last.cresp).n)

C3_Witness ==
  /\ IsFreshConvert
  /\ last.name = JStr(S_Shoes)
  /\ last.odoo = JNull
  /\ last.ret = placeholder_id
  /\ last.arg = S_42

(***************************************************************************)
(* C4.  With remapping enabled, each source id is sent to the name service *)
(* at most once and to the catalog service at most once, and every call    *)
(* for an id returns what the first call for it returned.                  *)
(***************************************************************************)
C4_OneLookupChainPerId ==
  convert_category_ids =>
    /\ \A id \in CategoryIds :
          /\ Count(wp_log, LAMBDA x : x = id) <= 1
          /\ Count(odoo_log, LAMBDA x : x.id = id) <= 1
    /\ last.op = "convert_category_id" => last.ret = first_ret.cat[last.arg]

\* a repeated id whose lookups would now give another result
C4_Witness ==
  /\ last.op = "convert_category_id"
  /\ convert_category_ids
  /\ last.arg \in DOMAIN last.cc_before
  /\ last.wp = <<>> /\ last.odoo_calls = <<>>
  /\ last.would_differ
  /\ last.ret = last.arg

(***************************************************************************)
(* C5.  With fetch_dimensions and cache_dimensions enabled, at most one    *)
(* GET is issued per url (exact key), and every call for a url returns the *)
(* pair the first call for it returned, an unknown pair included.          *)
(***************************************************************************)
C5_OneGetPerUrl ==
  (fetch_dimensions /\ cache_dimensions) =>
    /\ \A url \in ImageUrls : Count(get_log, LAMBDA x : x = url) <= 1
    /\ last.op = "get_image_dimensions" => last.ret = first_ret.dim[last.arg]

\* a url whose fetch failed is asked again while the origin would now answer
C5_Witness ==
  /\ fetch_dimensions /\ cache_dimensions
  /\ last.op = "get_image_dimensions"
  /\ last.arg \in DOMAIN last.dc_before
  /\ last.ret = UnknownSize
  /\ last.would_differ
  /\ last.gets = <<>>
  /\ U_A_png \in DOMAIN dimension_cache /\ U_a_png \in DOMAIN dimension_cache

(***************************************************************************)
(* C10.  With convert_category_ids disabled, convert_category_id returns   *)
(* its argument, sends no request to either service and writes nothing to  *)
(* the category cache.                                                     *)
(***************************************************************************)
C10_DisabledRemapIsIdentity ==
  ~convert_category_ids =>
    /\ wp_log = <<>>
    /\ odoo_log = <<>>
    /\ category_cache = EmptyCache
    /\ last.op = "convert_category_id" =>
          last.ret = last.arg /\ category_cache = last.cc_before

C10_Witness ==
  /\ ~convert_category_ids
  /\ last.op = "convert_category_id"
  /\ last.ret = S_42
  /\ steps = MaxSteps

(***************************************************************************)
(* Notions the claims about the regrouping pass are stated with.           *)
(***************************************************************************)
IsBanner(c) == IsMap(c) /\ Get(c, K_layout, JNull) = JStr(K_banner)

\* config.items of a component, the empty list when config or items is missing
ItemsOf(c) == Get(Get(c, K_config, JMap(<<>>)), K_items, JList(<<>>))

\* components are mappings, a banner's config is a mapping and its items a
\* list of mappings
WellTyped(components) ==
  \A i \in 1..Len(components) :
     /\ IsMap(components[i])
     /\ IsBanner(components[i]) =>
          /\ IsMap(Get(components[i], K_config, JMap(<<>>)))
          /\ IsList(ItemsOf(components[i]))
          /\ \A j \in 1..Len(ItemsOf(components[i]).l) : IsMap(ItemsOf(components[i]).l[j])

\* a banner whose items list is empty or missing
IsEmptyBanner(c) ==
  IsBanner(c) /\ IsMap(Get(c, K_config, JMap(<<>>))) /\ ItemsOf(c) = JList(<<>>)

\* a banner with a non-empty items list whose items all have isMainCategory true
IsMainBanner(c) ==
  /\ IsBanner(c)
  /\ IsMap(Get(c, K_config, JMap(<<>>)))
  /\ IsList(ItemsOf(c))
  /\ Len(ItemsOf(c).l) > 0
  /\ \A j \in 1..Len(ItemsOf(c).l) :
        /\ IsMap(ItemsOf(c).l[j])
        /\ Get(ItemsOf(c).l[j], K_isMainCategory, JBool(FALSE)) = JBool(TRUE)

IsMainCategoryList(c) == IsMap(c) /\ Get(c, K_layout, JNull) = JStr(K_mainCategoryList)

RECURSIVE IsSubsequence(_, _)
\* sub is obtained from seq by deleting elements
IsSubsequence(sub, seq) ==
  IF Len(sub) = 0 THEN TRUE
  ELSE IF Len(seq) = 0 THEN FALSE
  ELSE IF Head(sub) = Head(seq) THEN IsSubsequence(Tail(sub), Tail(seq))
  ELSE IsSubsequence(sub, Tail(seq))

\* {id: str(item.category), image: item.image} for every item of a banner
RecordsOf(c) ==
  [j \in 1..Len(ItemsOf(c).l) |->
     JMap(<<KV(K_id, JStr(PyStr(Get(ItemsOf(c).l[j], K_category, JNull)))),
            KV(K_image, Get(ItemsOf(c).l[j], K_image, JNull))>>)]

RegroupDone == last.op = "collect_main_category_items"

(***************************************************************************)
(* C1.  A banner component whose items list is empty or missing is not     *)
(* extracted by collect_main_category_items: the empty banners of the      *)
(* array are all in the result, in their order, and an array without a     *)
(* banner of main-category items gets no mainCategoryList component.       *)
(***************************************************************************)
C1_EmptyBannerStays ==
  (RegroupDone /\ WellTyped(last.components)) =>
    /\ ~IsRaise(last.ret)
    /\ SelectSeq(last.ret.l, IsEmptyBanner) = SelectSeq(last.components, IsEmptyBanner)
    /\ (\A i \in 1..Len(last.components) : ~IsMainBanner(last.components[i]))
          => \A j \in 1..Len(last.ret.l) : ~IsMainCategoryList(last.ret.l[j])

(***************************************************************************)
(* C6.  On an array with at least one banner whose non-empty items all     *)
(* have isMainCategory true, collect_main_category_items removes every     *)
(* such banner, keeps the remaining components in their order, and puts    *)
(* exactly one new component {layout: mainCategoryList, config:            *)
(* {categories: L}} at index 0, L holding one record {id, image} per item  *)
(* of those banners in encounter order.                                    *)
(***************************************************************************)
C6_MainBannersRegrouped ==
  (/\ RegroupDone
   /\ WellTyped(last.components)
   /\ \E i \in 1..Len(last.components) : IsMainBanner(last.components[i])) =>
    /\ ~IsRaise(last.ret)
    /\ Len(last.ret.l) >= 1
    /\ \A j \in 1..Len(last.ret.l) : ~IsMainBanner(last.ret.l[j])
    /\ IsSubsequence(Tail(last.ret.l), last.components)
    /\ SelectSeq(Tail(last.ret.l), LAMBDA c : ~IsBanner(c))
         = SelectSeq(last.components, LAMBDA c : ~IsBanner(c))
    /\ last.ret.l[1] =
         JMap(<<KV(K_layout, JStr(K_mainCategoryList)),
                KV(K_config, JMap(<<KV(K_categories,
                   JList(Flatten([i \in 1..Len(SelectSeq(last.components, IsMainBanner)) |->
                            RecordsOf(SelectSeq(last.components, IsMainBanner)[i])])))>>))>>)
    /\ Count(last.ret.l, IsMainCategoryList) = 1 + Count(last.components, IsMainCategoryList)

\* a survivor precedes an extracted banner of two items
C6_Witness ==
  /\ RegroupDone
  /\ last.components = <<GridComponent, Banner(JList(<<MainItem, BareMainItem>>))>>
  /\ Len(last.ret.l) = 2
  /\ last.ret.l[2] = GridComponent

(***************************************************************************)
(* Notions the claims about the transform of a document are stated with.   *)
(***************************************************************************)
TransformDone == last.op = "transform_data"

NoRequests == last.gets = <<>> /\ last.wp = <<>> /\ last.odoo = <<>>

IsCategoryKey(k) == Lower(k) \in {K_category, K_categoryid}

RECURSIVE IsPlain(_)
\* no key of the image-field set, no string is_image_url accepts, no
\* category or categoryId key anywhere in the value
IsPlain(v) ==
  CASE v.t = "map" ->
         \A i \in 1..Len(v.m) :
            ~IsImageField(v.m[i].k) /\ ~IsCategoryKey(v.m[i].k) /\ IsPlain(v.m[i].v)
    [] v.t = "list" -> \A i \in 1..Len(v.l) : IsPlain(v.l[i])
    [] v.t = "str" -> ~is_image_url(v)
    [] OTHER -> TRUE

\* a banner the regrouping pass removes: every item has a truthy
\* isMainCategory, which an empty or missing items list satisfies
IsRemovedBanner(c) ==
  /\ IsBanner(c)
  /\ \A j \in 1..Len(ItemsOf(c).l) :
        Truthy(Get(ItemsOf(c).l[j], K_isMainCategory, JBool(FALSE)))

RECURSIVE IsWellFormed(_)
\* every `components` array of the value is well typed
IsWellFormed(v) ==
  CASE v.t = "map" ->
         \A i \in 1..Len(v.m) :
            /\ (v.m[i].k = K_components /\ IsList(v.m[i].v)) => WellTyped(v.m[i].v.l)
            /\ IsWellFormed(v.m[i].v)
    [] v.t = "list" -> \A i \in 1..Len(v.l) : IsWellFormed(v.l[i])
    [] OTHER -> TRUE

RECURSIVE NothingRemoved(_)
\* no `components` array of the value holds a banner the pass removes
NothingRemoved(v) ==
  CASE v.t = "map" ->
         \A i \in 1..Len(v.m) :
            /\ (v.m[i].k = K_components /\ IsList(v.m[i].v)) =>
                  \A j \in 1..Len(v.m[i].v.l) : ~IsRemovedBanner(v.m[i].v.l[j])
            /\ NothingRemoved(v.m[i].v)
    [] v.t = "list" -> \A i \in 1..Len(v.l) : NothingRemoved(v.l[i])
    [] OTHER -> TRUE

RECURSIVE NoEmptyBanner(_)
\* no `components` array of the value holds a banner without items
NoEmptyBanner(v) ==
  CASE v.t = "map" ->
         \A i \in 1..Len(v.m) :
            /\ (v.m[i].k = K_components /\ IsList(v.m[i].v)) =>
                  \A j \in 1..Len(v.m[i].v.l) : ~IsEmptyBanner(v.m[i].v.l[j])
            /\ NoEmptyBanner(v.m[i].v)
    [] v.t = "list" -> \A i \in 1..Len(v.l) : NoEmptyBanner(v.l[i])
    [] OTHER -> TRUE

(***************************************************************************)
(* C2.  As claimed: a document with no image field, no image-looking       *)
(* string and no category key is returned equal to itself, without any     *)
(* request, also when it has a `components` array.  Stated on the          *)
(* documents whose components arrays are well typed and hold no banner     *)
(* without items (the case of C1).                                         *)
(***************************************************************************)
C2_PlainDocumentUnchanged ==
  (/\ TransformDone
   /\ IsPlain(last.doc)
   /\ IsWellFormed(last.doc)
   /\ NoEmptyBanner(last.doc)) =>
     last.out = last.doc /\ NoRequests

(***************************************************************************)
(* C2, amended.  Such a document is returned equal to itself, without any  *)
(* request, provided its `components` arrays are well typed and hold no    *)
(* banner whose items all have a truthy isMainCategory (a banner with no   *)
(* items included): those banners are regrouped.                           *)
(***************************************************************************)
C2_PlainDocumentWithoutRegroupUnchanged ==
  (/\ TransformDone
   /\ IsPlain(last.doc)
   /\ IsWellFormed(last.doc)
   /\ NothingRemoved(last.doc)) =>
     last.out = last.doc /\ NoRequests

C2_Witness ==
  /\ TransformDone
  /\ last.doc = PlainComponentsDocument
  /\ last.out = PlainComponentsDocument
  /\ fetch_dimensions /\ convert_category_ids
  /\ steps = 2

(***************************************************************************)
(* Image fields of the input, followed into the output.                    *)
(***************************************************************************)
IsDescriptorOf(v, s) == IsMap(v) /\ Get(v, K_imageUrl, JNull) = JStr(s)

RECURSIVE HasImageFieldString(_)
\* some mapping inside the value has a string under a key of the image-field set
HasImageFieldString(v) ==
  CASE v.t = "map" ->
         \E i \in 1..Len(v.m) :
            \/ IsImageField(v.m[i].k) /\ IsStr(v.m[i].v)
            \/ HasImageFieldString(v.m[i].v)
    [] v.t = "list" -> \E i \in 1..Len(v.l) : HasImageFieldString(v.l[i])
    [] OTHER -> FALSE

\* a mapping without one key
Without(d, key) == JMap(SelectSeq(d.m, LAMBDA p : p.k # key))

\* a banner without its items
WithoutItems(c) ==
  JMap([i \in 1..Len(c.m) |->
          IF c.m[i].k = K_config THEN KV(K_config, Without(c.m[i].v, K_items)) ELSE c.m[i]])

\* the items of the banners of an array that the pass removes, in order
RemovedItems(components) ==
  Flatten([i \in 1..Len(SelectSeq(components, IsRemovedBanner)) |->
             ItemsOf(SelectSeq(components, IsRemovedBanner)[i]).l])

RECURSIVE ImageFieldsKept(_, _, _), ComponentsKept(_, _, _)
\* every string under an image-field key of a mapping of `in` is, in `out`,
\* a mapping with that imageUrl under the same key; of a removed banner the
\* item's `image` is followed into its record and, when all is TRUE, the
\* removed banner may hold no other image field
ImageFieldsKept(in, out, all) ==
  IF IsMap(in)
  THEN /\ IsMap(out)
       /\ \A i \in 1..Len(in.m) :
            /\ in.m[i].k \in Keys(out)
            /\ IF in.m[i].k = K_components /\ IsList(in.m[i].v)
               THEN /\ IsList(Lookup(out, in.m[i].k))
                    /\ ComponentsKept(in.m[i].v.l, Lookup(out, in.m[i].k).l, all)
               ELSE IF IsImageField(in.m[i].k) /\ IsStr(in.m[i].v)
               THEN IsDescriptorOf(Lookup(out, in.m[i].k), in.m[i].v.s)
               ELSE ImageFieldsKept(in.m[i].v, Lookup(out, in.m[i].k), all)
  ELSE IF IsList(in)
  THEN /\ IsList(out)
       /\ Len(out.l) = Len(in.l)
       /\ \A i \in 1..Len(in.l) : ImageFieldsKept(in.l[i], out.l[i], all)
  ELSE TRUE

ComponentsKept(ins, outs, all) ==
  LET survivors == SelectSeq(ins, LAMBDA c : ~IsRemovedBanner(c))
      removed == SelectSeq(ins, IsRemovedBanner)
      items == RemovedItems(ins)
      rest == IF Len(items) > 0 THEN Tail(outs) ELSE outs
  IN  /\ Len(outs) = Len(survivors) + (IF Len(items) > 0 THEN 1 ELSE 0)
      /\ \A i \in 1..Len(survivors) : ImageFieldsKept(survivors[i], rest[i], all)
      /\ Len(items) > 0 =>
           LET records == Lookup(Lookup(outs[1], K_config), K_categories).l
           IN  /\ Len(records) = Len(items)
               /\ \A j \in 1..Len(items) :
                    IsStr(Get(items[j], K_image, JNull)) =>
                       IsDescriptorOf(Lookup(records[j], K_image), Lookup(items[j], K_image).s)
      /\ all =>
           /\ \A i \in 1..Len(removed) : ~HasImageFieldString(WithoutItems(removed[i]))
           /\ \A j \in 1..Len(items) : ~HasImageFieldString(Without(items[j], K_image))

(***************************************************************************)
(* C7.  As claimed: every string under an image-field key of a mapping of  *)
(* the document is, in the output, a mapping with that imageUrl under the  *)
(* same key or, for an item of a regrouped banner, under the `image` key   *)
(* of its record.  Stated on the documents whose components arrays hold no *)
(* banner without items (the case of C1).                                  *)
(***************************************************************************)
C7_EveryImageFieldKept ==
  (TransformDone /\ IsWellFormed(last.doc) /\ NoEmptyBanner(last.doc)) =>
     ~IsRaise(last.out) /\ ImageFieldsKept(last.doc, last.out, TRUE)

(***************************************************************************)
(* C7, amended.  The same for every mapping outside the banners the        *)
(* regrouping pass removes; of a removed banner only the string under the  *)
(* key `image` of each item is kept, as the imageUrl of the mapping under  *)
(* `image` in the item's record, and its other image fields are dropped.   *)
(***************************************************************************)
C7_ImageFieldsKeptOutsideRemovedBanners ==
  (TransformDone /\ IsWellFormed(last.doc)) =>
     ~IsRaise(last.out) /\ ImageFieldsKept(last.doc, last.out, FALSE)

\* a kept image field, a regrouped item with an image, and a fetch that failed
C7_Witness ==
  /\ TransformDone
  /\ IsMap(last.doc)
  /\ K_components \in Keys(last.doc)
  /\ Len(Lookup(last.doc, K_components).l) = 2
  /\ Len(RemovedItems(Lookup(last.doc, K_components).l)) = 1
  /\ HasImageFieldString(Lookup(last.doc, K_components).l[1])
  /\ ~IsRemovedBanner(Lookup(last.doc, K_components).l[1])
  /\ IsWellFormed(last.doc)
  /\ fetch_dimensions
  /\ Len(last.gets) = 2
  /\ Len(last.out.m[1].v.l[2].m) = 2
  /\ Lookup(last.out.m[1].v.l[2], K_image) = Obj(K_imageUrl, JStr(U_a_png))

(***************************************************************************)
(* C8.  A value under a category or categoryId key that is no digit string *)
(* and no integer with an all-digit form is returned unchanged, without a  *)
(* lookup; stated on the documents {key: value} with a scalar value.       *)
(***************************************************************************)
C8_NonDigitCategoryUntouched ==
  (/\ TransformDone
   /\ IsMap(last.doc)
   /\ Len(last.doc.m) = 1
   /\ IsCategoryKey(last.doc.m[1].k)
   /\ last.doc.m[1].v.t \in {"str", "int", "bool", "null"}
   /\ ~(last.doc.m[1].v.t \in {"str", "int"} /\ IsDigit(PyStr(last.doc.m[1].v)))) =>
     last.out = last.doc /\ last.wp = <<>> /\ last.odoo = <<>>

(***************************************************************************)
(* C9.  With fetch_dimensions disabled no GET is ever issued, the          *)
(* dimension cache stays empty and every image descriptor built holds the  *)
(* key imageUrl and nothing else.                                          *)
(***************************************************************************)
C9_NoFetchNoDimensions ==
  ~fetch_dimensions =>
    /\ get_log = <<>>
    /\ dimension_cache = EmptyCache
    /\ TransformDone =>
         /\ last.gets = <<>>
         /\ \A i \in 1..Len(last.made) :
               /\ IsMap(last.made[i])
               /\ Len(last.made[i].m) = 1
               /\ last.made[i].m[1].k = K_imageUrl
               /\ IsStr(last.made[i].m[1].v)

C9_Witness ==
  /\ ~fetch_dimensions
  /\ cache_dimensions
  /\ TransformDone
  /\ Len(last.made) = 2
  /\ steps = 2

(***************************************************************************)
(* C11.  With cache_dimensions enabled, a run of the transform on the      *)
(* document a complete earlier run of the same instance transformed        *)
(* returns what that run returned and sends no request to any service.     *)
(***************************************************************************)
C11_SecondRunReproduces ==
  (/\ TransformDone
   /\ cache_dimensions
   /\ last.prev \in {"same", "differs"}) =>
     last.prev = "same" /\ NoRequests

\* the second run of a document whose first run fetched a size and remapped an id
C11_Witness ==
  /\ TransformDone
  /\ fetch_dimensions /\ cache_dimensions /\ convert_category_ids
  /\ last.doc = JMap(<<KV(K_category, JStr(S_42)), KV(K_image, JStr(U_a_png))>>)
  /\ last.prev = "same"
  /\ last.out = JMap(<<KV(K_category, JStr(<<"7","7","7">>)),
                       KV(K_image, JMap(<<KV(K_imageUrl, JStr(U_a_png)),
                                          KV(K_width, JStr(<<"1","0">>)),
                                          KV(K_height, JStr(<<"2","0">>))>>))>>)
  /\ NoRequests
  /\ get_log = <<U_a_png>> /\ wp_log = <<S_42>>

(***************************************************************************)
(* Failures of the services, as the answers show them.                     *)
(***************************************************************************)
\* network error or timeout, a status outside 2xx, or bytes that are no image
DimFailed(resp) ==
  \/ resp.kind = "exception"
  \/ resp.kind = "http" /\ (resp.status \notin 200..299 \/ resp.body.t # "image")

\* error or timeout, a status other than 200, or a body that does not decode
LookupFailed(resp) ==
  \/ resp.kind = "exception"
  \/ resp.kind = "http" /\ (resp.status # 200 \/ resp.body = Undecodable)

\* no element of the sequence occurs twice
NoRepeat(seq) == \A i, j \in 1..Len(seq) : seq[i] = seq[j] => i = j

ServicesDone == last.op = "transform_data" /\ "ds" \in DOMAIN last

(***************************************************************************)
(* C12.  Whatever the services answer, the transform of a well-formed      *)
(* document returns an output with the keys of the document.  A failed     *)
(* image download gives a descriptor without width and height (and an      *)
(* unknown pair in the cache when caching is on), a failed name lookup     *)
(* leaves the source id as the result for that id, a failed catalog lookup *)
(* gives the placeholder.  Every lookup sends one request at most: no id   *)
(* is sent twice to a service, no url is fetched twice when caching is on, *)
(* and without caching there is one GET per descriptor built.              *)
(***************************************************************************)
C12_FailuresAbsorbed ==
  (ServicesDone /\ IsWellFormed(last.doc)) =>
    /\ ~IsRaise(last.out)
    /\ IsMap(last.out) /\ Keys(last.out) = Keys(last.doc)
    /\ \A i \in 1..Len(last.gets) :
          DimFailed(last.ds[i]) =>
             IF cache_dimensions
             THEN /\ dimension_cache[last.gets[i]] = UnknownSize
                  /\ \A j \in 1..Len(last.made) :
                        IsDescriptorOf(last.made[j], last.gets[i]) =>
                           last.made[j] = Obj(K_imageUrl, JStr(last.gets[i]))
             ELSE last.made[i] = Obj(K_imageUrl, JStr(last.gets[i]))
    /\ \A i \in 1..Len(last.wp) :
          LookupFailed(last.ns[i]) => category_cache[last.wp[i]] = last.wp[i]
    /\ \A i \in 1..Len(last.odoo) :
          LookupFailed(last.cs[i]) => category_cache[last.odoo[i].id] = placeholder_id
    /\ NoRepeat(wp_log) /\ NoRepeat(odoo_log)
    /\ cache_dimensions => NoRepeat(get_log)
    /\ (fetch_dimensions /\ ~cache_dimensions) => Len(last.gets) = Len(last.made)
    /\ Len(last.gets) <= Len(last.made)

\* the download, then the catalog lookup fail in the first run; the second
\* run sends nothing
C12_Witness ==
  /\ ServicesDone
  /\ fetch_dimensions /\ cache_dimensions /\ convert_category_ids
  /\ last.doc = JMap(<<KV(K_category, JStr(S_42)), KV(K_image, JStr(U_a_png))>>)
  /\ last.out = JMap(<<KV(K_category, JStr(placeholder_id)),
                       KV(K_image, Obj(K_imageUrl, JStr(U_a_png)))>>)
  /\ steps = 2
  /\ NoRequests
  /\ get_log = <<U_a_png>> /\ wp_log = <<S_42>> /\ Len(odoo_log) = 1
  /\ dimension_cache[U_a_png] = UnknownSize

(***************************************************************************)
(* C13.  A transform never changes its input: every node of the parsed     *)
(* document holds after the call what it held before, so the document is   *)
(* the same value, and the output has no dict or list object in common     *)
(* with it; this for transform_json_string and for transform_data called   *)
(* on the document itself, also when the regrouping pass removed and       *)
(* inserted components.  The output is the value the transform of the      *)
(* document's value gives.                                                 *)
(***************************************************************************)
HeapDone == last.op \in {"transform_json_string", "transform_data"} /\ "heap" \in DOMAIN last

C13_InputNeverMutated ==
  HeapDone =>
    /\ \A a \in Reach(last.root, last.heap_before) : last.heap[a] = last.heap_before[a]
    /\ Deref(last.root, last.heap) = last.doc
    /\ ~IsRaise(last.out) =>
          /\ Reach(last.out, last.heap) \cap Reach(last.root, last.heap) = {}
          /\ \E env \in AnsweredStreams :
                Deref(last.out, last.heap) =
                   transform_data(last.doc, Start(last.dc_before, last.cc_before, env)).out

\* transform_data called directly on a document whose banner is regrouped
C13_Witness ==
  /\ HeapDone
  /\ last.op = "transform_data"
  /\ IsMap(last.doc)
  /\ K_components \in Keys(last.doc)
  /\ Len(Lookup(last.doc, K_components).l) = 2
  /\ IsRef(last.out)
  /\ Len(Lookup(Deref(last.out, last.heap), K_components).l) = 1
  /\ IsMainCategoryList(Lookup(Deref(last.out, last.heap), K_components).l[1])
  /\ steps = 2

(***************************************************************************)
(* C14.  Under a category or categoryId key (in any case) a digit string   *)
(* becomes the remapped id as a string; a non-negative integer becomes the *)
(* integer the remapped string parses to (1139 for the placeholder, the    *)
(* integer itself after a stage-1 miss) and the remapped string itself     *)
(* when it does not parse.  Stated on the pairs of the documents that are  *)
(* mappings.                                                               *)
(***************************************************************************)
\* what convert_category_id gives for an id once the run is over
Remapped(id) == IF convert_category_ids THEN category_cache[id] ELSE id

C14_RemappedKeepsType ==
  (ServicesDone /\ IsMap(last.doc)) =>
    /\ IsMap(last.out)
    /\ \A i \in 1..Len(last.doc.m) :
         LET key == last.doc.m[i].k
             value == last.doc.m[i].v
             out == Lookup(last.out, key)
         IN  IsCategoryKey(key) =>
               /\ (IsStr(value) /\ IsDigit(value.s)) => out = JStr(Remapped(value.s))
               /\ (value.t = "int" /\ value.n >= 0) =>
                     LET s == Remapped(IntToStr(value.n)) IN
                     /\ IsIntLiteral(s) => out = JInt(StrToInt(s))
                     /\ ~IsIntLiteral(s) => out = JStr(s)
                     /\ s = placeholder_id => out = JInt(1139)
                     /\ s = IntToStr(value.n) => out = value

\* an integer id whose target id is no number
C14_Witness ==
  /\ ServicesDone
  /\ last.doc = Obj(K_categoryId, JInt(42))
  /\ Len(last.cs) = 1
  /\ last.cs[1] = CatalogMatch(JStr(S_Bags))
  /\ last.out = Obj(K_categoryId, JStr(S_Bags))

(***************************************************************************)
(* C15.  When the name lookup returned a name and the catalog answers 200  *)
(* with status "success" and a data array whose first element carries a    *)
(* numeric mattaId, 0 included, convert_category_id returns that id as a   *)
(* decimal string.                                                         *)
(***************************************************************************)
C15_NumericTargetIdFound ==
  (/\ IsFreshConvert
   /\ IsStr(last.name)
   /\ last.cresp \in {CatalogMatch(JInt(n)) : n \in {0, 42, 777, 1139}}) =>
     last.ret = IntToStr(MattaIdOf(last.cresp).n)

(***************************************************************************)
(* C16.  A banner with a non-empty items list of which an item has         *)
(* isMainCategory false or absent is not extracted, and neither is a       *)
(* component whose layout is not banner: these components are all in the   *)
(* result, in their order, after the inserted component if there is one,   *)
(* and the inserted component holds the records of the banners whose items *)
(* are all main categories, and no other record.                           *)
(***************************************************************************)
\* a banner with an item that is no main category
IsMixedBanner(c) ==
  /\ IsBanner(c)
  /\ IsList(ItemsOf(c))
  /\ \E j \in 1..Len(ItemsOf(c).l) :
        /\ IsMap(ItemsOf(c).l[j])
        /\ Get(ItemsOf(c).l[j], K_isMainCategory, JBool(FALSE)) = JBool(FALSE)

Stays(c) == ~IsBanner(c) \/ IsMixedBanner(c)

C16_MixedBannerStays ==
  (RegroupDone /\ WellTyped(last.components)) =>
    /\ ~IsRaise(last.ret)
    /\ LET inserted == Count(last.ret.l, IsMainCategoryList)
                         > Count(last.components, IsMainCategoryList)
           rest == IF inserted THEN Tail(last.ret.l) ELSE last.ret.l
           main == SelectSeq(last.components, IsMainBanner)
       IN  /\ SelectSeq(rest, Stays) = SelectSeq(last.components, Stays)
           /\ inserted <=> Len(main) > 0
           /\ inserted =>
                /\ IsMainCategoryList(last.ret.l[1])
                /\ Lookup(Lookup(last.ret.l[1], K_config), K_categories).l
                     = Flatten([i \in 1..Len(main) |-> RecordsOf(main[i])])

\* a banner with a main and another item stays; the banner after it is extracted
C16_Witness ==
  /\ RegroupDone
  /\ last.components = <<Banner(JList(<<MainItem, OtherItem>>)), Banner(JList(<<BareMainItem>>))>>
  /\ Len(last.ret.l) = 2
  /\ last.ret.l[2] = Banner(JList(<<MainItem, OtherItem>>))
  /\ Len(Lookup(Lookup(last.ret.l[1], K_config), K_categories).l) = 1

(***************************************************************************)
(* C17.  A string in a list that is the value of a key other than          *)
(* `components` becomes an image descriptor if and only if the key is an   *)
(* image field or the string looks like an image url, and the other        *)
(* elements of that list are transformed as values of their own; a string  *)
(* in the top-level list or in a list inside a list is returned as it is.  *)
(***************************************************************************)
\* a string of a list that transform_data walks is not touched; a mapping
\* in it is transformed
WalkedElement(in, out) ==
  /\ IsStr(in) => out = in
  /\ IsMap(in) => ImageFieldsKept(in, out, FALSE)
  /\ in.t \in {"null", "bool", "int"} => out = in

WalkedList(in, out) ==
  /\ IsList(out)
  /\ Len(out.l) = Len(in.l)
  /\ \A j \in 1..Len(in.l) : WalkedElement(in.l[j], out.l[j])

C17_ListStringsByPosition ==
  TransformDone =>
    /\ IsList(last.doc) => WalkedList(last.doc, last.out)
    /\ IsMap(last.doc) =>
         \A i \in 1..Len(last.doc.m) :
            LET key == last.doc.m[i].k
                value == last.doc.m[i].v
                out == Lookup(last.out, key)
            IN  (key # K_components /\ IsList(value)) =>
                  /\ IsList(out)
                  /\ Len(out.l) = Len(value.l)
                  /\ \A j \in 1..Len(value.l) :
                        /\ IsStr(value.l[j]) =>
                              IF IsImageField(key) \/ is_image_url(value.l[j])
                              THEN /\ IsDescriptorOf(out.l[j], value.l[j].s)
                                   /\ \E m \in 1..Len(last.made) : last.made[m] = out.l[j]
                              ELSE out.l[j] = value.l[j]
                        /\ IsList(value.l[j]) => WalkedList(value.l[j], out.l[j])
                        /\ ~IsStr(value.l[j]) => WalkedElement(value.l[j], out.l[j])

\* under an image field a string that does not look like a url is replaced,
\* the mapping next to it is transformed
C17_Witness ==
  /\ TransformDone
  /\ last.doc = Obj(K_image, JList(<<JStr(S_hello), Obj(K_Icon, JStr(S_hello))>>))
  /\ last.out = Obj(K_image, JList(<<Obj(K_imageUrl, JStr(S_hello)),
                                     Obj(K_Icon, Obj(K_imageUrl, JStr(S_hello)))>>))
  /\ Len(last.gets) = 2

(***************************************************************************)
(* C18.  In every call of convert_category_id with remapping enabled the   *)
(* cache is consulted first; an id found there causes no request; for an   *)
(* id not found the name service is asked next and the catalog service     *)
(* after it, only if the name service returned a name.  An id for which    *)
(* the name service was asked and the catalog service was not is never     *)
(* sent to the catalog service by a later call.                            *)
(***************************************************************************)
\* the ids sent so far to the catalog service
CatalogIds == {odoo_log[i].id : i \in 1..Len(odoo_log)}

\* the ids sent to the name service whose call stopped there
StoppedAtName == {wp_log[i] : i \in 1..Len(wp_log)} \ CatalogIds

LookupsOrdered ==
  (last'.op = "convert_category_id" /\ convert_category_ids) =>
    LET id == last'.arg
        trace == last'.trace
    IN  /\ Len(trace) >= 1
        /\ trace[1] = Event("cache", id)
        /\ id \in DOMAIN category_cache => trace = <<Event("cache", id)>>
        /\ id \notin DOMAIN category_cache =>
             /\ Len(trace) \in {2, 3}
             /\ trace[2] = Event("name", id)
             /\ Len(trace) = 3 => trace[3] = Event("catalog", id) /\ IsStr(last'.name)
             /\ last'.name = JNull => Len(trace) = 2
        /\ \A other \in StoppedAtName : other \notin CatalogIds'

C18_LookupsOrdered == [][LookupsOrdered]_vars

\* an id whose name lookup failed is asked again while both services would
\* now answer: the call stops at the cache
C18_Witness ==
  /\ last.op = "convert_category_id"
  /\ convert_category_ids
  /\ last.trace = <<Event("cache", S_42)>>
  /\ wp_log = <<S_42>>
  /\ odoo_log = <<>>
  /\ category_cache[S_42] = S_42
  /\ last.would_differ
  /\ steps = 2

(***************************************************************************)
(* C19.  The regrouping pass works on the transformed components: the      *)
(* record of an item of an extracted banner has for id the string form of  *)
(* the item's category after remapping and for image the descriptor built  *)
(* from the item's image string, and every request of the run precedes the *)
(* regrouping.  Stated on the documents that hold a `components` array and *)
(* nothing beside it, at the top or under one key.                         *)
(***************************************************************************)
\* the `components` array of such a document
ComponentsOf(v) ==
  IF K_components \in Keys(v) THEN Lookup(v, K_components)
  ELSE Lookup(Lookup(v, K_page), K_components)

HoldsComponentsOnly(v) ==
  /\ IsMap(v)
  /\ Len(v.m) = 1
  /\ \/ K_components \in Keys(v) /\ IsList(Lookup(v, K_components))
     \/ /\ K_page \in Keys(v)
        /\ IsMap(Lookup(v, K_page))
        /\ Len(Lookup(v, K_page).m) = 1
        /\ K_components \in Keys(Lookup(v, K_page))
        /\ IsList(Lookup(Lookup(v, K_page), K_components))

\* a category value that is remapped: a digit string or a non-negative integer
IsSourceId(c) == (IsStr(c) \/ c.t = "int") /\ IsDigit(PyStr(c))

C19_RegroupAfterTransform ==
  (TransformDone /\ HoldsComponentsOnly(last.doc) /\ IsWellFormed(last.doc)) =>
    /\ ~IsRaise(last.out)
    /\ HoldsComponentsOnly(last.out)
    /\ LET items == RemovedItems(ComponentsOf(last.doc).l)
           outs == ComponentsOf(last.out).l
       IN  Len(items) > 0 =>
             /\ Len(outs) > 0
             /\ IsMainCategoryList(outs[1])
             /\ LET records == Lookup(Lookup(outs[1], K_config), K_categories).l IN
                /\ Len(records) = Len(items)
                /\ \A j \in 1..Len(items) :
                     LET category == Get(items[j], K_category, JNull)
                         image == Get(items[j], K_image, JNull)
                     IN  /\ Lookup(records[j], K_id) =
                              JStr(IF IsSourceId(category)
                                   THEN Remapped(PyStr(category))
                                   ELSE PyStr(category))
                         /\ IF IsStr(image)
                            THEN /\ IsDescriptorOf(Lookup(records[j], K_image), image.s)
                                 /\ \E m \in 1..Len(last.made) :
                                       last.made[m] = Lookup(records[j], K_image)
                            ELSE Lookup(records[j], K_image) = image
    /\ Len(last.trace) > 0
    /\ last.trace[Len(last.trace)].e = "regroup"
    /\ Count(last.trace, LAMBDA x : x.e = "regroup") = 1

\* the id of the record is the remapped id, its image the descriptor with
\* the fetched size; the requests come before the regrouping
C19_Witness ==
  /\ TransformDone
  /\ fetch_dimensions /\ convert_category_ids
  /\ HoldsComponentsOnly(last.doc)
  /\ K_components \in Keys(last.doc)
  /\ Len(ComponentsOf(last.doc).l) = 1
  /\ ~IsRaise(last.out)
  /\ Len(ComponentsOf(last.out).l) = 1
  /\ IsMainCategoryList(ComponentsOf(last.out).l[1])
  /\ Lookup(Lookup(ComponentsOf(last.out).l[1], K_config), K_categories).l =
       <<JMap(<<KV(K_id, JStr(<<"7","7","7">>)),
                KV(K_image, JMap(<<KV(K_imageUrl, JStr(U_a_png)),
                                   KV(K_width, JStr(<<"1","0">>)),
                                   KV(K_height, JStr(<<"2","0">>))>>))>>)>>
  /\ [i \in 1..Len(last.trace) |-> last.trace[i].e] =
       <<"cache", "name", "catalog", "get", "get", "regroup">>

(***************************************************************************)
(* C20.  Over every step of an instance: a key of dimension_cache or of    *)
(* category_cache stays, with the value it has; a value of category_cache  *)
(* is its key, the placeholder "1139", or the target id the catalog        *)
(* service returned for that key; a value of dimension_cache is a pair of  *)
(* two integers or the pair (None, None); and with cache_dimensions        *)
(* disabled dimension_cache stays empty.                                   *)
(***************************************************************************)
\* the catalog response carries a target id whose string form is value
ReturnsTarget(resp, value) ==
  /\ resp.kind = "http"
  /\ resp.status = 200
  /\ IsMap(resp.body)
  /\ Get(resp.body, K_status, JNull) = JStr(K_success)
  /\ IsList(Get(resp.body, K_data, JNull))
  /\ Len(Lookup(resp.body, K_data).l) > 0
  /\ K_mattaId \in Keys(Lookup(resp.body, K_data).l[1])
  /\ PyStr(MattaIdOf(resp)) = value

CachesAppendOnly ==
  /\ \A url \in DOMAIN dimension_cache :
        url \in DOMAIN dimension_cache' /\ dimension_cache'[url] = dimension_cache[url]
  /\ \A id \in DOMAIN category_cache :
        id \in DOMAIN category_cache' /\ category_cache'[id] = category_cache[id]
  /\ \A id \in DOMAIN category_cache' \ DOMAIN category_cache :
        \/ category_cache'[id] = id
        \/ category_cache'[id] = placeholder_id
        \/ \E j \in 1..Len(last'.odoo) :
              last'.odoo[j].id = id /\ ReturnsTarget(last'.cs[j], category_cache'[id])
  /\ \A url \in DOMAIN dimension_cache' :
        \/ dimension_cache'[url] = UnknownSize
        \/ dimension_cache'[url][1].t = "int" /\ dimension_cache'[url][2].t = "int"
  /\ ~cache_dimensions => dimension_cache' = EmptyCache

C20_CachesAppendOnly == [][CachesAppendOnly]_vars

\* a second run with both caches in use leaves the fetched size and the
\* remapped id as the first run stored them
C20_Witness ==
  /\ ServicesDone
  /\ steps = 2
  /\ fetch_dimensions /\ cache_dimensions /\ convert_category_ids
  /\ last.doc = JMap(<<KV(K_category, JStr(S_42)), KV(K_image, JStr(U_a_png))>>)
  /\ dimension_cache = last.dc_before
  /\ category_cache = last.cc_before
  /\ dimension_cache[U_a_png] = <<JInt(30), JInt(40)>>
  /\ category_cache[S_42] = <<"7","7","7">>

=============================================================================
